---- MODULE Spec2Model ----
(***************************************************************************)
(* A model of the type-variable substitution store `Subs` of               *)
(* compiler/types/src/subs.rs: the unification table with descriptors,     *)
(* the arenas, snapshots, deep copy / import and serialization.            *)
(*                                                                         *)
(* Variables are 0-based ids as in the source; a Rust Vec is a TLA+        *)
(* sequence and element i of the Vec is element i + 1 of the sequence      *)
(* (operator At).  Strings that the code handles byte by byte (tag names   *)
(* and field names) are sequences of one-character strings.                *)
(***************************************************************************)
EXTENDS Integers, Sequences, FiniteSets, TLC

\* ------------------------------------------------------------------ bounds
\* user-space variables a store may hold beyond the reserved prefix
MaxUserVars == 3
\* open snapshots at any time
MaxSnapshots == 1
\* entries the `field_names` arena may grow by through rigid_var
MaxNames == 1

\* ------------------------------------------------------- 0-based sequences
At(seq, i) == seq[i + 1]

SetAt(seq, i, x) == [seq EXCEPT ![i + 1] = x]

\* the elements seq[start .. start + length - 1] (0-based start)
SliceOf(seq, start, length) == [k \in 1..length |-> seq[start + k]]

Indices(seq) == 0..(Len(seq) - 1)

\* the one element of a singleton set; { F(v) : v \in { x } } computes x
\* first and then F of its value, as statements that run in order do
Only(S) == CHOOSE y \in S : TRUE

\* --------------------------------------------------------------- Variable
ConstVariables ==
  << "NULL", "EMPTY_RECORD", "EMPTY_TAG_UNION", "BOOL_ENUM", "BOOL",
     "ORDER_ENUM", "ORDER",
     "SIGNED8", "SIGNED16", "SIGNED32", "SIGNED64", "SIGNED128",
     "UNSIGNED8", "UNSIGNED16", "UNSIGNED32", "UNSIGNED64", "UNSIGNED128",
     "NATURAL",
     "INTEGER_SIGNED8", "INTEGER_SIGNED16", "INTEGER_SIGNED32",
     "INTEGER_SIGNED64", "INTEGER_SIGNED128",
     "INTEGER_UNSIGNED8", "INTEGER_UNSIGNED16", "INTEGER_UNSIGNED32",
     "INTEGER_UNSIGNED64", "INTEGER_UNSIGNED128",
     "INTEGER_NATURAL",
     "NUM_INTEGER_SIGNED8", "NUM_INTEGER_SIGNED16", "NUM_INTEGER_SIGNED32",
     "NUM_INTEGER_SIGNED64", "NUM_INTEGER_SIGNED128",
     "NUM_INTEGER_UNSIGNED8", "NUM_INTEGER_UNSIGNED16",
     "NUM_INTEGER_UNSIGNED32", "NUM_INTEGER_UNSIGNED64",
     "NUM_INTEGER_UNSIGNED128",
     "NUM_INTEGER_NATURAL",
     "I8", "I16", "I32", "I64", "I128",
     "U8", "U16", "U32", "U64", "U128",
     "NAT",
     "BINARY32", "BINARY64", "DECIMAL",
     "FLOAT_BINARY32", "FLOAT_BINARY64", "FLOAT_DECIMAL",
     "NUM_FLOAT_BINARY32", "NUM_FLOAT_BINARY64", "NUM_FLOAT_DECIMAL",
     "F32", "F64", "DEC" >>

\* Variable::<name>: the position of the name in the enumeration
Var(name) == (CHOOSE i \in 1..Len(ConstVariables) : ConstVariables[i] = name) - 1

NUM_RESERVED_VARS == Len(ConstVariables)

FIRST_USER_SPACE_VAR == NUM_RESERVED_VARS

\* ------------------------------------------------- Mark, Rank, OptVariable
Mark_NONE == 2

Mark_OCCURS == 1

Mark_GET_VAR_NAMES == 0

Mark_next(m) == m + 1

Rank_NONE == 0

Rank_toplevel == 1

Rank_import == 2

\* OptVariable::NONE is OptVariable(Variable::NULL.0)
OptVariable_NONE == Var("NULL")

OptVariable_is_some(c) == c # OptVariable_NONE

\* Option<SubsIndex<Lowercase>>::None
NoName == -1

\* ---------------------------------------------------- Content, Descriptor
FlexVar(opt_name) == [tag |-> "FlexVar", name |-> opt_name]

RigidVar(name) == [tag |-> "RigidVar", name |-> name]

FlexAbleVar(opt_name, ability) ==
  [tag |-> "FlexAbleVar", name |-> opt_name, ability |-> ability]

RigidAbleVar(name, ability) ==
  [tag |-> "RigidAbleVar", name |-> name, ability |-> ability]

RecursionVar(structure, opt_name) ==
  [tag |-> "RecursionVar", structure |-> structure, name |-> opt_name]

Structure(flat_type) == [tag |-> "Structure", flat |-> flat_type]

Alias(symbol, args, real_var, kind) ==
  [tag |-> "Alias", symbol |-> symbol, args |-> args, real |-> real_var,
   kind |-> kind]

RangedNumber(typ, range) == [tag |-> "RangedNumber", typ |-> typ, range |-> range]

Error == [tag |-> "Error"]

Apply(symbol, args) == [tag |-> "Apply", symbol |-> symbol, args |-> args]

Func(args, closure_var, ret_var) ==
  [tag |-> "Func", args |-> args, closure |-> closure_var, ret |-> ret_var]

Record(fields, ext) == [tag |-> "Record", fields |-> fields, ext |-> ext]

TagUnion(tags, ext) == [tag |-> "TagUnion", tags |-> tags, ext |-> ext]

FunctionOrTagUnion(tag_name, symbol, ext) ==
  [tag |-> "FunctionOrTagUnion", tag_name |-> tag_name, symbol |-> symbol,
   ext |-> ext]

RecursiveTagUnion(rec_var, tags, ext) ==
  [tag |-> "RecursiveTagUnion", rec |-> rec_var, tags |-> tags, ext |-> ext]

Erroneous(problem) == [tag |-> "Erroneous", problem |-> problem]

EmptyRecord == [tag |-> "EmptyRecord"]

EmptyTagUnion == [tag |-> "EmptyTagUnion"]

SubsSlice_new(start, length) == [start |-> start, length |-> length]

SubsSlice_default == SubsSlice_new(0, 0)

AliasVariables_default ==
  [variables_start |-> 0, all_variables_len |-> 0, type_variables_len |-> 0]

AliasVariables_all_variables(a) ==
  SubsSlice_new(a.variables_start, a.all_variables_len)

TagName_Tag(uppercase) == [tag |-> "Tag", name |-> uppercase]

TagName_Closure(symbol) == [tag |-> "Closure", symbol |-> symbol]

Descriptor(content, rank, mark, copy) ==
  [content |-> content, rank |-> rank, mark |-> mark, copy |-> copy]

Descriptor_from(content) ==
  Descriptor(content, Rank_NONE, Mark_NONE, OptVariable_NONE)

unnamed_flex_var == FlexVar(NoName)

flex_var_descriptor == Descriptor_from(unnamed_flex_var)

\* ------------------------------------- the unification table (ven_ena)
\* A table is a sequence of VarValue records: the parent key, the value
\* carried by a root, and the rank that decides which root survives a union.
VarValue(parent, value, rank) == [parent |-> parent, value |-> value, rank |-> rank]

\* a new key is its own parent and has rank 0
ut_new_value(key, value) == VarValue(key, value, 0)

ut_new_key(ut, value) ==
  [table |-> Append(ut, ut_new_value(Len(ut), value)), key |-> Len(ut)]

ut_is_redirect(ut, v) == At(ut, v).parent # v

RECURSIVE ut_get_root_key_without_compacting(_, _)
ut_get_root_key_without_compacting(ut, v) ==
  IF At(ut, v).parent = v THEN v
  ELSE ut_get_root_key_without_compacting(ut, At(ut, v).parent)

\* the compacting lookup: on the way back from the root every key met is
\* redirected to the root
RECURSIVE ut_inlined_get_root_key(_, _)
ut_inlined_get_root_key(ut, vid) ==
  LET redirect == At(ut, vid).parent
  IN IF redirect = vid THEN [table |-> ut, key |-> vid]
     ELSE LET r == ut_inlined_get_root_key(ut, redirect)
          IN [table |-> IF r.key # redirect
                        THEN SetAt(r.table, vid, [At(r.table, vid) EXCEPT !.parent = r.key])
                        ELSE r.table,
              key |-> r.key]

ut_probe_value(ut, v) ==
  LET r == ut_inlined_get_root_key(ut, v)
  IN [table |-> r.table, value |-> At(r.table, r.key).value]

ut_probe_value_without_compacting(ut, v) ==
  At(ut, ut_get_root_key_without_compacting(ut, v)).value

\* ut_probe_value_ref and ut_probe_value_ref_mut borrow the root's node without compacting
ut_probe_value_ref(ut, v) == At(ut, ut_get_root_key_without_compacting(ut, v))

\* the root key whose value ut_probe_value_ref_mut(v) lets the caller overwrite
ut_probe_value_ref_mut(ut, v) == ut_get_root_key_without_compacting(ut, v)

\* ut_update_value(key, |node| node.value = value)
ut_update_value(ut, key, value) == SetAt(ut, key, [At(ut, key) EXCEPT !.value = value])

ut_redirect_root(ut, new_rank, old_root_key, new_root_key, new_value) ==
  LET t1 == SetAt(ut, old_root_key,
                  [At(ut, old_root_key) EXCEPT !.parent = new_root_key])
  IN SetAt(t1, new_root_key,
           [At(t1, new_root_key) EXCEPT !.rank = new_rank, !.value = new_value])

\* union by rank; with equal ranks key_a is redirected to key_b
ut_unify_roots(ut, key_a, key_b, new_value) ==
  LET rank_a == At(ut, key_a).rank
      rank_b == At(ut, key_b).rank
  IN IF rank_a > rank_b THEN ut_redirect_root(ut, rank_a, key_b, key_a, new_value)
     ELSE IF rank_a < rank_b THEN ut_redirect_root(ut, rank_b, key_a, key_b, new_value)
     ELSE ut_redirect_root(ut, rank_a + 1, key_a, key_b, new_value)

ut_unioned(ut, a, b) ==
  LET ra == ut_inlined_get_root_key(ut, a)
      rb == ut_inlined_get_root_key(ra.table, b)
  IN [table |-> rb.table, result |-> ra.key = rb.key]

\* ------------------------------------------------------------------ Subs
\* strings handled byte by byte
Str_Err == << "E", "r", "r" >>

Str_Ok == << "O", "k" >>

Str_InvalidNumStr ==
  << "I", "n", "v", "a", "l", "i", "d", "N", "u", "m", "S", "t", "r" >>

Str_BadUtf8 == << "B", "a", "d", "U", "t", "f", "8" >>

Str_OutOfBounds == << "O", "u", "t", "O", "f", "B", "o", "u", "n", "d", "s" >>

Str_False == << "F", "a", "l", "s", "e" >>

Str_True == << "T", "r", "u", "e" >>

\* every operation on a store takes the store and returns the store it leaves
fresh(s, value) ==
  LET r == ut_new_key(s.utable, value)
  IN [subs |-> [s EXCEPT !.utable = r.table], var |-> r.key]

fresh_unnamed_flex_var(s) == fresh(s, Descriptor_from(unnamed_flex_var))

\* the loop calls new_key once per entry: entry k gets the key Len(utable) + k - 1
extend_by(s, entries) ==
  [s EXCEPT !.utable =
     s.utable \o [k \in 1..entries |->
                   ut_new_value(Len(s.utable) + k - 1, flex_var_descriptor)]]

\* a lookup that follows one redirect only
get_root_key_one_step(s, key) == [subs |-> s, key |-> At(s.utable, key).parent]

get_root_key(s, key) ==
  LET r == ut_inlined_get_root_key(s.utable, key)
  IN [subs |-> [s EXCEPT !.utable = r.table], key |-> r.key]

get_root_key_without_compacting(s, key) ==
  ut_get_root_key_without_compacting(s.utable, key)

\* a union that keeps the descriptor the surviving root already had
union_keeping_descriptor(s, left, right, desc) ==
  LET l == ut_inlined_get_root_key(s.utable, left)
      r == ut_inlined_get_root_key(l.table, right)
  IN [s EXCEPT !.utable =
        ut_unify_roots(r.table, r.key, l.key,
                       At(r.table, IF At(r.table, r.key).rank > At(r.table, l.key).rank
                                   THEN r.key ELSE l.key).value)]

\* a union that passes the left root first and the right root second
union_unswapped(s, left, right, desc) ==
  LET l == ut_inlined_get_root_key(s.utable, left)
      r == ut_inlined_get_root_key(l.table, right)
  IN [s EXCEPT !.utable = ut_unify_roots(r.table, l.key, r.key, desc)]

\* a union that unifies its arguments without resolving them to their roots
union_of_keys(s, left, right, desc) ==
  [s EXCEPT !.utable = ut_unify_roots(s.utable, right, left, desc)]

\* the call passes the right root first and the left root second
union(s, left, right, desc) ==
  LET l == ut_inlined_get_root_key(s.utable, left)
      r == ut_inlined_get_root_key(l.table, right)
  IN [s EXCEPT !.utable = ut_unify_roots(r.table, r.key, l.key, desc)]

get(s, key) ==
  LET r == ut_probe_value(s.utable, key)
  IN [subs |-> [s EXCEPT !.utable = r.table], value |-> r.value]

get_ref(s, key) == ut_probe_value_ref(s.utable, key).value

get_rank(s, key) == ut_probe_value_ref(s.utable, key).value.rank

get_mark(s, key) == ut_probe_value_ref(s.utable, key).value.mark

get_without_compacting(s, key) == ut_probe_value_without_compacting(s.utable, key)

get_content_without_compacting(s, key) ==
  ut_probe_value_ref(s.utable, key).value.content

\* get_ref_mut(key) followed by the caller's write of the whole descriptor
get_ref_mut_write(s, key, desc) ==
  [s EXCEPT !.utable = ut_update_value(s.utable, ut_probe_value_ref_mut(s.utable, key), desc)]

\* a write that goes to the key's own entry rather than to its root
set_at_key(s, key, r_value) ==
  [s EXCEPT !.utable = ut_update_value(s.utable, key, r_value)]

set(s, key, r_value) ==
  LET l == ut_inlined_get_root_key(s.utable, key)
  IN [s EXCEPT !.utable = ut_update_value(l.table, l.key, r_value)]

set_rank(s, key, rank) ==
  LET l == ut_inlined_get_root_key(s.utable, key)
  IN [s EXCEPT !.utable =
        ut_update_value(l.table, l.key, [At(l.table, l.key).value EXCEPT !.rank = rank])]

set_mark(s, key, mark) ==
  LET l == ut_inlined_get_root_key(s.utable, key)
  IN [s EXCEPT !.utable =
        ut_update_value(l.table, l.key, [At(l.table, l.key).value EXCEPT !.mark = mark])]

set_rank_mark(s, key, rank, mark) ==
  LET l == ut_inlined_get_root_key(s.utable, key)
  IN [s EXCEPT !.utable =
        ut_update_value(l.table, l.key,
                        [At(l.table, l.key).value EXCEPT !.rank = rank, !.mark = mark])]

set_content(s, key, content) ==
  LET l == ut_inlined_get_root_key(s.utable, key)
  IN [s EXCEPT !.utable =
        ut_update_value(l.table, l.key,
                        [At(l.table, l.key).value EXCEPT !.content = content])]

equivalent(s, left, right) ==
  LET r == ut_unioned(s.utable, left, right)
  IN [subs |-> [s EXCEPT !.utable = r.table], result |-> r.result]

redundant(s, var) == ut_is_redirect(s.utable, var)

Subs_len(s) == Len(s.utable)

Subs_contains(s, var) == var < Subs_len(s)

\* SubsIndex::push_new(&mut self.field_names, name) followed by set
rigid_var(s, var, name) ==
  LET name_index == Len(s.field_names)
      s1 == [s EXCEPT !.field_names = Append(s.field_names, name)]
  IN set(s1, var, Descriptor_from(RigidVar(name_index)))

rigid_able_var(s, var, name, ability) ==
  LET name_index == Len(s.field_names)
      s1 == [s EXCEPT !.field_names = Append(s.field_names, name)]
  IN set(s1, var, Descriptor_from(RigidAbleVar(name_index, ability)))

\* the length is cast to a 16-bit integer
U16Bits == 16

AsU16(n) == n % (2 ^ U16Bits)

SubsSlice_extend_new(vec, items) ==
  [vec |-> vec \o items, slice |-> SubsSlice_new(Len(vec), AsU16(Len(items)))]

\* a reservation that hands out the entries at the start of the arena
reserve_variable_slices_at_start(s, length) ==
  [subs |-> [s EXCEPT !.variable_slices =
               s.variable_slices \o [k \in 1..length |-> SubsSlice_default]],
   slice |-> SubsSlice_new(0, AsU16(length))]

reserve_variable_slices(s, length) ==
  [subs |-> [s EXCEPT !.variable_slices =
               s.variable_slices \o [k \in 1..length |-> SubsSlice_default]],
   slice |-> SubsSlice_new(Len(s.variable_slices), AsU16(length))]

reserve_into_subs(s, length) ==
  [subs |-> [s EXCEPT !.variables = s.variables \o [k \in 1..length |-> Var("NULL")]],
   slice |-> SubsSlice_new(Len(s.variables), AsU16(length))]

VariableSubsSlice_insert_into_subs(s, input) ==
  [subs |-> [s EXCEPT !.variables = s.variables \o input],
   slice |-> SubsSlice_new(Len(s.variables), AsU16(Len(input)))]

\* AliasVariables::insert_into_subs; the call panics when there are three type arguments
AliasVariables_insert_into_subs(s, type_arguments, unnamed_arguments) ==
  [subs |-> [s EXCEPT !.variables = s.variables \o type_arguments \o unnamed_arguments],
   vars |-> [variables_start |-> Len(s.variables),
             type_variables_len |-> AsU16(Len(type_arguments)),
             all_variables_len |-> AsU16(Len(type_arguments) + Len(unnamed_arguments))],
   panic |-> AsU16(Len(type_arguments)) = 3]

UnionTags_from_slices(tag_names, variables) ==
  [length |-> tag_names.length, tag_names_start |-> tag_names.start,
   variables_start |-> variables.start]

\* input is a sequence of pairs << tag name, sequence of variables >>
RECURSIVE UnionTags_insert_loop(_, _)
UnionTags_insert_loop(s, input) ==
  IF input = << >> THEN s
  ELSE LET v == VariableSubsSlice_insert_into_subs(s, Head(input)[2])
           s1 == [v.subs EXCEPT !.tag_names = Append(v.subs.tag_names, Head(input)[1]),
                                !.variable_slices = Append(v.subs.variable_slices, v.slice)]
       IN UnionTags_insert_loop(s1, Tail(input))

UnionTags_insert_into_subs(s, input) ==
  [subs |-> UnionTags_insert_loop(s, input),
   tags |-> UnionTags_from_slices(SubsSlice_new(Len(s.tag_names), Len(input)),
                                  SubsSlice_new(Len(s.variable_slices), Len(input)))]

\* ------------------------------------------------- the reserved variables
integer_type(s, num_signed64, num_i64, signed64, integer_signed64, num_integer_signed64, var_i64) ==
  LET s1 == set_content(s, signed64,
              Alias(num_signed64, AliasVariables_default, Var("EMPTY_TAG_UNION"), "Opaque"))
      v2 == AliasVariables_insert_into_subs(s1, << signed64 >>, << >>)
      s2 == set_content(v2.subs, integer_signed64,
              Alias("NUM_INTEGER", v2.vars, signed64, "Opaque"))
      v3 == AliasVariables_insert_into_subs(s2, << integer_signed64 >>, << >>)
      s3 == set_content(v3.subs, num_integer_signed64,
              Alias("NUM_NUM", v3.vars, integer_signed64, "Opaque"))
  IN set_content(s3, var_i64,
       Alias(num_i64, AliasVariables_default, num_integer_signed64, "Structural"))

IntegerTypes == << "128", "64", "32", "16", "8" >>

\* the calls for one signedness, widest first
RECURSIVE define_signed(_, _, _)
define_signed(s, widths, prefix) ==
  IF widths = << >> THEN s
  ELSE LET w == Head(widths)
           sgn == IF prefix = "I" THEN "SIGNED" ELSE "UNSIGNED"
       IN Only({ define_signed(s1, Tail(widths), prefix) :
                 s1 \in { integer_type(s, "NUM_" \o sgn \o w, "NUM_" \o prefix \o w,
                                       Var(sgn \o w), Var("INTEGER_" \o sgn \o w),
                                       Var("NUM_INTEGER_" \o sgn \o w), Var(prefix \o w)) } })

define_integer_types(s) ==
  Only({ integer_type(s2, "NUM_NATURAL", "NUM_NAT", Var("NATURAL"), Var("INTEGER_NATURAL"),
                      Var("NUM_INTEGER_NATURAL"), Var("NAT")) :
         s2 \in { define_signed(s1, IntegerTypes, "U") :
                  s1 \in { define_signed(s, IntegerTypes, "I") } } })

float_type(s, num_binary64, num_f64, binary64, float_binary64, num_float_binary64, var_f64) ==
  LET s1 == set_content(s, binary64,
              Alias(num_binary64, AliasVariables_default, Var("EMPTY_TAG_UNION"),
                    "Structural"))
      v2 == AliasVariables_insert_into_subs(s1, << binary64 >>, << >>)
      s2 == set_content(v2.subs, float_binary64,
              Alias("NUM_FLOATINGPOINT", v2.vars, binary64, "Opaque"))
      v3 == AliasVariables_insert_into_subs(s2, << float_binary64 >>, << >>)
      s3 == set_content(v3.subs, num_float_binary64,
              Alias("NUM_NUM", v3.vars, float_binary64, "Opaque"))
  IN set_content(s3, var_f64,
       Alias(num_f64, AliasVariables_default, num_float_binary64, "Structural"))

define_float_types(s) ==
  Only({ float_type(s2, "NUM_DECIMAL", "NUM_DEC", Var("DECIMAL"), Var("FLOAT_DECIMAL"),
                    Var("NUM_FLOAT_DECIMAL"), Var("DEC")) :
         s2 \in { float_type(s1, "NUM_BINARY64", "NUM_F64", Var("BINARY64"),
                             Var("FLOAT_BINARY64"), Var("NUM_FLOAT_BINARY64"), Var("F64")) :
                  s1 \in { float_type(s, "NUM_BINARY32", "NUM_F32", Var("BINARY32"),
                                      Var("FLOAT_BINARY32"), Var("NUM_FLOAT_BINARY32"),
                                      Var("F32")) } } })

Max(a, b) == IF a > b THEN a ELSE b

\* the store before any variable is made
EmptySubs ==
  [utable |-> << >>,
   variables |-> << >>,
   tag_names |-> << TagName_Tag(Str_Err), TagName_Tag(Str_Ok),
                    TagName_Tag(Str_InvalidNumStr), TagName_Tag(Str_BadUtf8),
                    TagName_Tag(Str_OutOfBounds) >>,
   field_names |-> << >>,
   record_fields |-> << >>,
   variable_slices |-> << SubsSlice_default >>,
   problems |-> << >>]

\* statements that leave BOOL without a content of its own
define_empty_and_bool_enum_only(s3) ==
  LET s4 == set_content(s3, Var("EMPTY_RECORD"), Structure(EmptyRecord))
      s5 == set_content(s4, Var("EMPTY_TAG_UNION"), Structure(EmptyTagUnion))
      b == UnionTags_insert_into_subs(s5, << << TagName_Tag(Str_False), << >> >>,
                                            << TagName_Tag(Str_True), << >> >> >>)
  IN set_content(b.subs, Var("BOOL_ENUM"),
       Structure(TagUnion(b.tags, Var("EMPTY_TAG_UNION"))))

\* the statements after define_float_types
define_empty_and_bool(s3) ==
  LET s4 == set_content(s3, Var("EMPTY_RECORD"), Structure(EmptyRecord))
      s5 == set_content(s4, Var("EMPTY_TAG_UNION"), Structure(EmptyTagUnion))
      b == UnionTags_insert_into_subs(s5, << << TagName_Tag(Str_False), << >> >>,
                                            << TagName_Tag(Str_True), << >> >> >>)
      s6 == set_content(b.subs, Var("BOOL_ENUM"),
              Structure(TagUnion(b.tags, Var("EMPTY_TAG_UNION"))))
  IN set_content(s6, Var("BOOL"),
       Alias("BOOL_BOOL", AliasVariables_default, Var("BOOL_ENUM"), "Structural"))

\* the loop of new_key calls is the loop of extend_by
with_capacity(capacity) ==
  Only({ define_empty_and_bool(s3) :
         s3 \in { define_float_types(s2) :
                  s2 \in { define_integer_types(s1) :
                           s1 \in { extend_by(EmptySubs,
                                              Max(capacity, NUM_RESERVED_VARS)) } } } })

Subs_new == with_capacity(0)

\* -------------------------------------------------------------- snapshots
\* The table logs every write made while a snapshot is open; rolling back
\* undoes the log, which leaves the table as it was when the snapshot was taken.
ut_snapshot(ut, open) == Append(open, ut)

ut_rollback_to(open) == [table |-> open[Len(open)], open |-> SubSeq(open, 1, Len(open) - 1)]

ut_commit(open) == SubSeq(open, 1, Len(open) - 1)

snapshot(s, open) == ut_snapshot(s.utable, open)

\* a rollback that forgets the snapshot without undoing anything
rollback_to_committing(s, open) == [subs |-> s, open |-> ut_commit(open)]

rollback_to(s, open) ==
  LET r == ut_rollback_to(open)
  IN [subs |-> [s EXCEPT !.utable = r.table], open |-> r.open]

commit_snapshot(s, open) == ut_commit(open)

\* ------------------------------------------------------------------ state
VARIABLES
  subs,       \* the store under test
  target,     \* a second store: the target of a copy, the result of deserialize
  snapshots,  \* the open snapshots of subs, innermost last
  saved,      \* history: the store as it was when each open snapshot was taken
  last        \* history: the last operation, its arguments and what it returned

vars == << subs, target, snapshots, saved, last >>

\* the variables a caller holds: the user-space variables of the store
UserVars(s) == FIRST_USER_SPACE_VAR..(Subs_len(s) - 1)

AllVars(s) == 0..(Subs_len(s) - 1)

\* the rank the table keeps for the root of v
TableRank(s, v) == At(s.utable, get_root_key_without_compacting(s, v)).rank

\* the descriptors, contents, ranks and marks callers pass in
DescChoices ==
  { flex_var_descriptor,
    Descriptor(Error, Rank_toplevel, Mark_OCCURS, OptVariable_NONE) }

ContentChoices == { Error }

RankChoices == { Rank_toplevel }

MarkChoices == { Mark_OCCURS }

NameChoices == { << "a" >> }

\* the rank the table keeps for union by rank stays within this bound
MaxTableRank == 2

Init ==
  /\ subs = Subs_new
  /\ target = Subs_new
  /\ snapshots = << >>
  /\ saved = << >>
  /\ last = [op |-> "new"]

FreshWith(D) ==
  \E d \in D :
    /\ Subs_len(subs) < NUM_RESERVED_VARS + MaxUserVars
    /\ subs' = fresh(subs, d).subs
    /\ last' = [op |-> "fresh", desc |-> d, var |-> fresh(subs, d).var]
    /\ UNCHANGED << target, snapshots, saved >>

Fresh == FreshWith(DescChoices)

ExtendBy ==
  \E n \in 1..2 :
    /\ Subs_len(subs) + n <= NUM_RESERVED_VARS + MaxUserVars
    /\ subs' = extend_by(subs, n)
    /\ last' = [op |-> "extend_by", entries |-> n]
    /\ UNCHANGED << target, snapshots, saved >>

\* last records the roots and table ranks of the two arguments before the call
UnionWith(D) ==
  \E l \in UserVars(subs), r \in UserVars(subs), d \in D :
    /\ TableRank(subs, l) < MaxTableRank
    /\ TableRank(subs, r) < MaxTableRank
    /\ subs' = union(subs, l, r, d)
    /\ last' = [op |-> "union", left |-> l, right |-> r, desc |-> d,
                lroot |-> get_root_key_without_compacting(subs, l),
                rroot |-> get_root_key_without_compacting(subs, r),
                lrank |-> TableRank(subs, l), rrank |-> TableRank(subs, r)]
    /\ UNCHANGED << target, snapshots, saved >>

Union == UnionWith(DescChoices)

Set ==
  \E v \in UserVars(subs), d \in DescChoices :
    /\ subs' = set(subs, v, d)
    /\ last' = [op |-> "set", key |-> v, desc |-> d]
    /\ UNCHANGED << target, snapshots, saved >>

SetContent ==
  \E v \in UserVars(subs), c \in ContentChoices :
    /\ subs' = set_content(subs, v, c)
    /\ last' = [op |-> "set_content", key |-> v, content |-> c]
    /\ UNCHANGED << target, snapshots, saved >>

SetRank ==
  \E v \in UserVars(subs), r \in RankChoices :
    /\ subs' = set_rank(subs, v, r)
    /\ last' = [op |-> "set_rank", key |-> v, rank |-> r]
    /\ UNCHANGED << target, snapshots, saved >>

SetMark ==
  \E v \in UserVars(subs), m \in MarkChoices :
    /\ subs' = set_mark(subs, v, m)
    /\ last' = [op |-> "set_mark", key |-> v, mark |-> m]
    /\ UNCHANGED << target, snapshots, saved >>

\* last records whether the lookup redirected a key
Get ==
  \E v \in UserVars(subs) :
    /\ subs' = get(subs, v).subs
    /\ last' = [op |-> "get", key |-> v, value |-> get(subs, v).value,
                compacted |-> get(subs, v).subs # subs]
    /\ UNCHANGED << target, snapshots, saved >>

GetRootKey ==
  \E v \in UserVars(subs) :
    /\ subs' = get_root_key(subs, v).subs
    /\ last' = [op |-> "get_root_key", key |-> v, root |-> get_root_key(subs, v).key,
                compacted |-> get_root_key(subs, v).subs # subs]
    /\ UNCHANGED << target, snapshots, saved >>

Equivalent ==
  \E l \in UserVars(subs), r \in UserVars(subs) :
    /\ subs' = equivalent(subs, l, r).subs
    /\ last' = [op |-> "equivalent", left |-> l, right |-> r,
                result |-> equivalent(subs, l, r).result]
    /\ UNCHANGED << target, snapshots, saved >>

RigidVarOp ==
  \E v \in UserVars(subs), n \in NameChoices :
    /\ Len(subs.field_names) < MaxNames
    /\ subs' = rigid_var(subs, v, n)
    /\ last' = [op |-> "rigid_var", key |-> v, name |-> n]
    /\ UNCHANGED << target, snapshots, saved >>

Snapshot ==
  /\ Len(snapshots) < MaxSnapshots
  /\ snapshots' = snapshot(subs, snapshots)
  /\ saved' = Append(saved, subs)
  /\ last' = [op |-> "snapshot"]
  /\ UNCHANGED << subs, target >>

\* last records the store as it was when the snapshot was taken, the number of
\* keys the rollback removes and whether it undoes a write to an older key
RollbackTo ==
  /\ Len(snapshots) > 0
  /\ subs' = rollback_to(subs, snapshots).subs
  /\ snapshots' = rollback_to(subs, snapshots).open
  /\ saved' = SubSeq(saved, 1, Len(saved) - 1)
  /\ last' = [op |-> "rollback_to", before |-> saved[Len(saved)],
              undone_keys |-> Subs_len(subs) - Subs_len(saved[Len(saved)]),
              undone_writes |-> \E v \in AllVars(saved[Len(saved)]) :
                                  At(subs.utable, v) # At(saved[Len(saved)].utable, v)]
  /\ UNCHANGED target

CommitSnapshot ==
  /\ Len(snapshots) > 0
  /\ snapshots' = commit_snapshot(subs, snapshots)
  /\ saved' = SubSeq(saved, 1, Len(saved) - 1)
  /\ last' = [op |-> "commit_snapshot"]
  /\ UNCHANGED << subs, target >>

\* ------------------------------------------ the union-find operations
Next ==
  \/ Fresh
  \/ ExtendBy
  \/ Union
  \/ Set
  \/ Get
  \/ GetRootKey
  \/ Equivalent

Spec == Init /\ [][Next]_vars

\* ------------------------------------------------ union-find properties
\* the root and the descriptor a caller reads for x in store s
RootOf(s, x) == get_root_key(s, x).key

DescOf(s, x) == get(s, x).value

\* C1: after union(l, r, desc) the two arguments are equivalent and have one
\* root, every variable that was equivalent to l or to r before the call reads
\* desc, and every variable of any other class keeps its root and descriptor.
C1_UnionMerges ==
  [][last'.op = "union" =>
       LET l == last'.left
           r == last'.right
       IN /\ equivalent(subs', l, r).result
          /\ RootOf(subs', l) = RootOf(subs', r)
          /\ \A x \in AllVars(subs) :
               IF equivalent(subs, x, l).result \/ equivalent(subs, x, r).result
               THEN DescOf(subs', x) = last'.desc
               ELSE /\ RootOf(subs', x) = RootOf(subs, x)
                    /\ DescOf(subs', x) = DescOf(subs, x)]_vars

\* a union of two different classes, one of them with a member that is
\* neither argument, which changed the descriptor that member reads
C1_Witness ==
  /\ last.op = "union"
  /\ last.lroot # last.rroot
  /\ \E x \in UserVars(subs) \ { last.left, last.right } :
       /\ equivalent(subs, x, last.left).result
       /\ DescOf(subs, x) = last.desc
       /\ At(subs.utable, x).value # last.desc

\* C2: root agreement: for every allocated variable the compacting lookup
\* returns a root (looking the result up again returns it), returns the root
\* the lookup without compaction returns, and leaves that root in place.
C2_RootAgreement ==
  \A v \in AllVars(subs) :
    LET r == get_root_key(subs, v)
    IN /\ get_root_key(r.subs, r.key).key = r.key
       /\ r.key = get_root_key_without_compacting(subs, v)
       /\ get_root_key_without_compacting(r.subs, v) = r.key

\* a compacting lookup that redirected a key which was two redirects away
\* from its root
C2_Witness ==
  /\ last.op = "get_root_key"
  /\ last.compacted
  /\ last.root # last.key
  /\ At(subs.utable, last.key).parent = last.root

C5_SelfUnionChangesNothing ==
  [][(last'.op = "union" /\ last'.left = last'.right) =>
       \A x \in AllVars(subs) :
         /\ RootOf(subs', x) = RootOf(subs, x)
         /\ DescOf(subs', x) = DescOf(subs, x)]_vars

\* C5 amended: union(v, v, d) leaves every variable with the root it had
\* before the call; the variables equivalent to v read d afterwards and every
\* other variable reads the descriptor it read before.
C5_SelfUnionKeepsRoots ==
  [][(last'.op = "union" /\ last'.left = last'.right) =>
       \A x \in AllVars(subs) :
         /\ RootOf(subs', x) = RootOf(subs, x)
         /\ DescOf(subs', x) =
              IF equivalent(subs, x, last'.left).result THEN last'.desc
              ELSE DescOf(subs, x)]_vars

\* a union of a redirected variable with itself that changed the descriptor
\* its class reads
C5_Witness ==
  /\ last.op = "union"
  /\ last.left = last.right
  /\ last.lroot # last.left
  /\ DescOf(subs, last.left) = last.desc
  /\ At(subs.utable, last.left).value # last.desc

\* ------------------------------------------- descriptors of a class
\* stores in which classes have several members: in PairStore the first user
\* variable is redirected to the second, in ChainStore the first is redirected
\* to the second and the second to the third
FreshStore == extend_by(Subs_new, MaxUserVars)

PairStore ==
  union(FreshStore, FIRST_USER_SPACE_VAR + 1, FIRST_USER_SPACE_VAR, flex_var_descriptor)

ChainStore ==
  LET top == FIRST_USER_SPACE_VAR + 2
      s1 == union(PairStore, top, top, flex_var_descriptor)
  IN union(s1, top, FIRST_USER_SPACE_VAR + 1, flex_var_descriptor)

InitDesc ==
  /\ subs \in { PairStore, ChainStore }
  /\ target = Subs_new
  /\ snapshots = << >>
  /\ saved = << >>
  /\ last = [op |-> "new"]

NextDesc ==
  \/ Set
  \/ SetContent
  \/ SetRank
  \/ SetMark
  \/ Get
  \/ GetRootKey

SpecDesc == InitDesc /\ [][NextDesc]_vars

\* the members of the class of key in store s
Members(s, key) == { m \in AllVars(s) : equivalent(s, m, key).result }

RootHasContent(s) ==
  \A v \in AllVars(s) :
    get(s, v).value.content = get(s, get_root_key(s, v).key).value.content

WriteReadBack ==
  /\ last.op = "set" =>
       \A m \in Members(subs, last.key) : get(subs, m).value = last.desc
  /\ last.op = "set_content" =>
       \A m \in Members(subs, last.key) : get(subs, m).value.content = last.content
  /\ last.op = "set_rank" =>
       \A m \in Members(subs, last.key) : get(subs, m).value.rank = last.rank
  /\ last.op = "set_mark" =>
       \A m \in Members(subs, last.key) : get(subs, m).value.mark = last.mark

\* C3: descriptor authority: every variable reads the content its root reads;
\* a write made with set, set_content, set_rank or set_mark through any member
\* of a class is what every member of the class reads back; and a get or
\* get_root_key, which compacts paths, changes no root and no descriptor read.
C3_DescriptorAuthority ==
  /\ RootHasContent(subs)
  /\ [][/\ RootHasContent(subs')
        /\ WriteReadBack'
        /\ last'.op \in { "get", "get_root_key" } =>
             \A v \in AllVars(subs) :
               /\ get(subs', v).value = get(subs, v).value
               /\ get_without_compacting(subs', v) = get_without_compacting(subs, v)
               /\ get_root_key(subs', v).key = get_root_key(subs, v).key]_vars

\* a set_content through a redirected member, read back through another
\* member, while the entry of the redirected member itself keeps older content
C3_Witness ==
  /\ last.op = "set_content"
  /\ redundant(subs, last.key)
  /\ At(subs.utable, last.key).value.content # last.content
  /\ \E m \in UserVars(subs) \ { last.key } :
       /\ m \in Members(subs, last.key)
       /\ get(subs, m).value.content = last.content

\* --------------------------------------------------------------- rollback
\* between snapshot and rollback the callers make fresh unnamed flex variables
\* and union with the unnamed flex descriptor
FreshFlex == FreshWith({ flex_var_descriptor })

UnionFlex == UnionWith({ flex_var_descriptor })

NextSnapshot ==
  \/ FreshFlex
  \/ UnionFlex
  \/ RigidVarOp
  \/ Snapshot
  \/ RollbackTo
  \/ CommitSnapshot

SpecSnapshot == Init /\ [][NextSnapshot]_vars

Arenas(s) ==
  << s.variables, s.variable_slices, s.tag_names, s.field_names, s.record_fields,
     s.problems >>

\* the store s shows callers the variables, roots and descriptors of store b
SameTable(s, b) ==
  /\ Subs_len(s) = Subs_len(b)
  /\ \A v \in AllVars(b) :
       /\ get_root_key(s, v).key = get_root_key(b, v).key
       /\ get(s, v).value = get(b, v).value

\* C6 as stated: after rollback_to(s) the number of variables, every
\* variable's root and descriptor and the contents of the arenas equal those
\* of the store just before snapshot().
C6_RollbackRestoresAll ==
  last.op = "rollback_to" =>
    /\ SameTable(subs, last.before)
    /\ Arenas(subs) = Arenas(last.before)

\* C6 amended: after rollback_to(s) the number of variables and every
\* variable's root and descriptor equal those of the store just before
\* snapshot(); the arenas are left as they were just before the rollback.
C6_RollbackRestoresTable ==
  [][last'.op = "rollback_to" =>
       /\ SameTable(subs', last'.before)
       /\ Arenas(subs') = Arenas(subs)]_vars

\* a rollback that removed a key and undid a write to an older key while a
\* name appended to field_names after the snapshot stayed
C6_Witness ==
  /\ last.op = "rollback_to"
  /\ last.undone_keys > 0
  /\ last.undone_writes
  /\ Len(subs.field_names) > Len(last.before.field_names)

\* ============================================================ deep copy
\* the descriptors the closure make_descriptor builds
make_descriptor(content, max_rank) ==
  Descriptor(content, max_rank, Mark_NONE, OptVariable_NONE)

SubsIndex_push_new(vector, value) ==
  [vec |-> Append(vector, value), index |-> Len(vector)]

\* what is left of a slice's iterator after one step
SubsSlice_rest(slice) == SubsSlice_new(slice.start + 1, slice.length - 1)

\* a write of a whole new descriptor that holds the copy
modify_descriptor_copy(s, var, copy) ==
  get_ref_mut_write(s, var, Descriptor(FlexVar(NoName), Rank_NONE, Mark_NONE, copy))

\* source.modify(var, |descriptor| { descriptor.mark = NONE; descriptor.copy = copy })
\* writes the descriptor of var's root in place
modify_mark_copy(s, var, copy) ==
  get_ref_mut_write(s, var, [get_ref(s, var) EXCEPT !.mark = Mark_NONE, !.copy = copy])

\* the name is cloned from the source's field_names and pushed on the target's
push_name_to_target(env, name_index) ==
  LET r == SubsIndex_push_new(env.target.field_names,
                              At(env.source.field_names, name_index))
  IN [env |-> [env EXCEPT !.target.field_names = r.vec], index |-> r.index]

\* the tag names of a union are cloned to the end of the target's tag_names
extend_tag_names(env, tags) ==
  [env |-> [env EXCEPT !.target.tag_names =
              @ \o SliceOf(env.source.tag_names, tags.tag_names_start, tags.length)],
   slice |-> SubsSlice_new(Len(env.target.tag_names), AsU16(tags.length))]

\* the field names and field kinds of a record are cloned to the target
extend_record_fields(env, fields, variables_start) ==
  [env |-> [env EXCEPT
              !.target.field_names =
                 @ \o SliceOf(env.source.field_names, fields.field_names_start,
                              fields.length),
              !.target.record_fields =
                 @ \o SliceOf(env.source.record_fields, fields.field_types_start,
                              fields.length)],
   fields |-> [length |-> fields.length,
               field_names_start |-> Len(env.target.field_names),
               variables_start |-> variables_start,
               field_types_start |-> Len(env.target.record_fields)]]

RecordFields_variables(fields) == SubsSlice_new(fields.variables_start, fields.length)

UnionTags_variables(tags) == SubsSlice_new(tags.variables_start, tags.length)

RECURSIVE deep_copy_var_to_help(_, _)
RECURSIVE deep_copy_zip(_, _, _)
RECURSIVE deep_copy_slices(_, _, _)
RECURSIVE deep_copy_flat_type(_, _)
RECURSIVE deep_copy_content(_, _, _)

\* a loop that stores a fresh variable for every element, not the element's copy
deep_copy_zip_fresh(env, new, old) ==
  IF new.length = 0 \/ old.length = 0 THEN env
  ELSE LET t == fresh_unnamed_flex_var(env.target)
       IN deep_copy_zip([env EXCEPT !.target =
                           [t.subs EXCEPT !.variables = SetAt(@, new.start, t.var)]],
                        SubsSlice_rest(new), SubsSlice_rest(old))

\* for (target_index, var_index) in (new.indices()).zip(old):
\*   target.variables[target_index] = deep_copy_var_to_help(env, source[var_index])
deep_copy_zip(env, new, old) ==
  IF new.length = 0 \/ old.length = 0 THEN env
  ELSE LET r == deep_copy_var_to_help(env, At(env.source.variables, old.start))
       IN deep_copy_zip([r.env EXCEPT !.target.variables = SetAt(@, new.start, r.var)],
                        SubsSlice_rest(new), SubsSlice_rest(old))

\* for (target_index, index) in (new_variable_slices.indices()).zip(tags.variables()):
\*   the payload slice source[index] is copied to a newly reserved slice
deep_copy_slices(env, new, old) ==
  IF new.length = 0 \/ old.length = 0 THEN env
  ELSE LET slice == At(env.source.variable_slices, old.start)
           n == reserve_into_subs(env.target, slice.length)
           e == deep_copy_zip([env EXCEPT !.target = n.subs], n.slice, slice)
       IN deep_copy_slices([e EXCEPT !.target.variable_slices = SetAt(@, new.start, n.slice)],
                           SubsSlice_rest(new), SubsSlice_rest(old))

\* the match on the flat type of a Structure; gives the flat type of the copy
deep_copy_flat_type(env, flat_type) ==
  CASE flat_type.tag = "Apply" ->
         LET n == reserve_into_subs(env.target, flat_type.args.length)
         IN [env |-> deep_copy_zip([env EXCEPT !.target = n.subs], n.slice, flat_type.args),
             flat |-> Apply(flat_type.symbol, n.slice)]
    [] flat_type.tag = "Func" ->
         LET ret == deep_copy_var_to_help(env, flat_type.ret)
             closure == deep_copy_var_to_help(ret.env, flat_type.closure)
             n == reserve_into_subs(closure.env.target, flat_type.args.length)
         IN [env |-> deep_copy_zip([closure.env EXCEPT !.target = n.subs], n.slice,
                                   flat_type.args),
             flat |-> Func(n.slice, closure.var, ret.var)]
    [] flat_type.tag \in { "EmptyRecord", "EmptyTagUnion", "Erroneous" } ->
         [env |-> env, flat |-> flat_type]
    [] flat_type.tag = "Record" ->
         LET n == reserve_into_subs(env.target, flat_type.fields.length)
             e == deep_copy_zip([env EXCEPT !.target = n.subs], n.slice,
                                RecordFields_variables(flat_type.fields))
             f == extend_record_fields(e, flat_type.fields, n.slice.start)
             ext == deep_copy_var_to_help(f.env, flat_type.ext)
         IN [env |-> ext.env, flat |-> Record(f.fields, ext.var)]
    [] flat_type.tag = "TagUnion" ->
         LET ext == deep_copy_var_to_help(env, flat_type.ext)
             n == reserve_variable_slices(ext.env.target, flat_type.tags.length)
             e == deep_copy_slices([ext.env EXCEPT !.target = n.subs], n.slice,
                                   UnionTags_variables(flat_type.tags))
             names == extend_tag_names(e, flat_type.tags)
         IN [env |-> names.env,
             flat |-> TagUnion(UnionTags_from_slices(names.slice, n.slice), ext.var)]
    [] flat_type.tag = "FunctionOrTagUnion" ->
         LET names == [env EXCEPT !.target.tag_names =
                         Append(@, At(env.source.tag_names, flat_type.tag_name))]
             ext == deep_copy_var_to_help(names, flat_type.ext)
         IN [env |-> ext.env,
             flat |-> FunctionOrTagUnion(Len(env.target.tag_names), flat_type.symbol,
                                         ext.var)]
    [] flat_type.tag = "RecursiveTagUnion" ->
         LET n == reserve_variable_slices(env.target, flat_type.tags.length)
             e == deep_copy_slices([env EXCEPT !.target = n.subs], n.slice,
                                   UnionTags_variables(flat_type.tags))
             names == extend_tag_names(e, flat_type.tags)
             ext == deep_copy_var_to_help(names.env, flat_type.ext)
             rec == deep_copy_var_to_help(ext.env, flat_type.rec)
         IN [env |-> rec.env,
             flat |-> RecursiveTagUnion(rec.var,
                                        UnionTags_from_slices(names.slice, n.slice),
                                        ext.var)]

\* the match on the content of the variable being copied; copy is the fresh
\* variable of the target that stands for it
deep_copy_content(env, copy, content) ==
  CASE content.tag = "Structure" ->
         LET r == deep_copy_flat_type(env, content.flat)
         IN [r.env EXCEPT !.target =
               set(@, copy, make_descriptor(Structure(r.flat), env.max_rank))]
    [] content.tag = "FlexVar" /\ content.name # NoName ->
         LET n == push_name_to_target(env, content.name)
         IN [n.env EXCEPT !.target = set_content(@, copy, FlexVar(n.index))]
    [] content.tag = "FlexVar" /\ content.name = NoName -> env
    [] content.tag = "Error" -> env
    [] content.tag = "RecursionVar" ->
         LET r == deep_copy_var_to_help(env, content.structure)
         IN [r.env EXCEPT !.target =
               set(@, copy, make_descriptor(RecursionVar(r.var, content.name),
                                            env.max_rank))]
    [] content.tag = "RigidVar" ->
         LET n == push_name_to_target(env, content.name)
         IN [n.env EXCEPT !.target =
               set(@, copy, make_descriptor(FlexVar(n.index), env.max_rank))]
    [] content.tag = "FlexAbleVar" /\ content.name # NoName ->
         LET n == push_name_to_target(env, content.name)
         IN [n.env EXCEPT !.target =
               set_content(@, copy, FlexAbleVar(n.index, content.ability))]
    [] content.tag = "FlexAbleVar" /\ content.name = NoName ->
         [env EXCEPT !.target = set_content(@, copy, FlexAbleVar(NoName, content.ability))]
    [] content.tag = "RigidAbleVar" ->
         LET n == push_name_to_target(env, content.name)
         IN [n.env EXCEPT !.target =
               set(@, copy, make_descriptor(FlexAbleVar(n.index, content.ability),
                                            env.max_rank))]
    [] content.tag = "Alias" ->
         LET n == reserve_into_subs(env.target, content.args.all_variables_len)
             e == deep_copy_zip([env EXCEPT !.target = n.subs], n.slice,
                                AliasVariables_all_variables(content.args))
             real == deep_copy_var_to_help(e, content.real)
         IN [real.env EXCEPT !.target =
               set(@, copy,
                   make_descriptor(Alias(content.symbol,
                                         [content.args EXCEPT
                                            !.variables_start = n.slice.start],
                                         real.var, content.kind),
                                   env.max_rank))]
    [] content.tag = "RangedNumber" ->
         LET typ == deep_copy_var_to_help(env, content.typ)
             n == reserve_into_subs(typ.env.target, content.range.length)
             e == deep_copy_zip([typ.env EXCEPT !.target = n.subs], n.slice, content.range)
         IN [e EXCEPT !.target =
               set(@, copy, make_descriptor(RangedNumber(typ.var, n.slice), env.max_rank))]

\* gives the environment the call leaves and the variable it returns
deep_copy_var_to_help(env, var) ==
  LET desc == get_without_compacting(env.source, var)
  IN IF OptVariable_is_some(desc.copy) THEN [env |-> env, var |-> desc.copy]
     ELSE LET t == fresh_unnamed_flex_var(env.target)
          IN [env |-> deep_copy_content(
                        [env EXCEPT !.visited = Append(@, var),
                                    !.target = t.subs,
                                    !.source = modify_mark_copy(@, var, t.var)],
                        t.var, desc.content),
              var |-> t.var]

\* for var in visited: a descriptor whose copy is set gets rank, mark and copy cleared
RECURSIVE deep_copy_clear_visited(_, _)
deep_copy_clear_visited(source, visited) ==
  IF visited = << >> THEN source
  ELSE LET descriptor == get_ref(source, Head(visited))
       IN deep_copy_clear_visited(
            IF OptVariable_is_some(descriptor.copy)
            THEN get_ref_mut_write(source, Head(visited),
                                   [descriptor EXCEPT !.rank = Rank_NONE,
                                                      !.mark = Mark_NONE,
                                                      !.copy = OptVariable_NONE])
            ELSE source,
            Tail(visited))

DeepCopyVarToEnv(source, dest, max_rank) ==
  [visited |-> << >>, source |-> source, target |-> dest, max_rank |-> max_rank]

\* a copy that leaves the copy fields of the visited variables as the pass set them
deep_copy_var_to_uncleared(source, dest, var) ==
  LET r == deep_copy_var_to_help(DeepCopyVarToEnv(source, dest, Rank_toplevel), var)
  IN [source |-> r.env.source, target |-> r.env.target, var |-> r.var]

deep_copy_var_to(source, dest, var) ==
  LET r == deep_copy_var_to_help(DeepCopyVarToEnv(source, dest, Rank_toplevel), var)
  IN [source |-> deep_copy_clear_visited(r.env.source, r.env.visited),
      target |-> r.env.target, var |-> r.var]

\* ============================================================ copy import
is_registered(content) ==
  CASE content.tag \in { "FlexVar", "RigidVar", "FlexAbleVar", "RigidAbleVar" } -> FALSE
    [] content.tag = "Structure" ->
         content.flat.tag \notin { "EmptyRecord", "EmptyTagUnion" }
    [] OTHER -> TRUE

RECURSIVE copy_import_to_help(_, _, _)
RECURSIVE copy_import_zip(_, _, _, _)
RECURSIVE copy_import_slices(_, _, _, _)
RECURSIVE copy_import_flat_type(_, _, _)
RECURSIVE copy_import_content(_, _, _, _, _)

\* for (target_index, var_index) in (new.indices()).zip(old):
\*   target.variables[target_index] = copy_import_to_help(env, max_rank, source[var_index])
copy_import_zip(env, max_rank, new, old) ==
  IF new.length = 0 \/ old.length = 0 THEN env
  ELSE LET r == copy_import_to_help(env, max_rank, At(env.source.variables, old.start))
       IN copy_import_zip([r.env EXCEPT !.target.variables = SetAt(@, new.start, r.var)],
                          max_rank, SubsSlice_rest(new), SubsSlice_rest(old))

copy_import_slices(env, max_rank, new, old) ==
  IF new.length = 0 \/ old.length = 0 THEN env
  ELSE LET slice == At(env.source.variable_slices, old.start)
           n == reserve_into_subs(env.target, slice.length)
           e == copy_import_zip([env EXCEPT !.target = n.subs], max_rank, n.slice, slice)
       IN copy_import_slices(
            [e EXCEPT !.target.variable_slices = SetAt(@, new.start, n.slice)],
            max_rank, SubsSlice_rest(new), SubsSlice_rest(old))

\* the match on a flat type other than Erroneous
copy_import_flat_type(env, max_rank, flat_type) ==
  CASE flat_type.tag = "Apply" ->
         LET n == reserve_into_subs(env.target, flat_type.args.length)
         IN [env |-> copy_import_zip([env EXCEPT !.target = n.subs], max_rank, n.slice,
                                     flat_type.args),
             flat |-> Apply(flat_type.symbol, n.slice)]
    [] flat_type.tag = "Func" ->
         LET ret == copy_import_to_help(env, max_rank, flat_type.ret)
             closure == copy_import_to_help(ret.env, max_rank, flat_type.closure)
             n == reserve_into_subs(closure.env.target, flat_type.args.length)
         IN [env |-> copy_import_zip([closure.env EXCEPT !.target = n.subs], max_rank,
                                     n.slice, flat_type.args),
             flat |-> Func(n.slice, closure.var, ret.var)]
    [] flat_type.tag \in { "EmptyRecord", "EmptyTagUnion" } ->
         [env |-> env, flat |-> flat_type]
    [] flat_type.tag = "Record" ->
         LET n == reserve_into_subs(env.target, flat_type.fields.length)
             e == copy_import_zip([env EXCEPT !.target = n.subs], max_rank, n.slice,
                                  RecordFields_variables(flat_type.fields))
             f == extend_record_fields(e, flat_type.fields, n.slice.start)
             ext == copy_import_to_help(f.env, max_rank, flat_type.ext)
         IN [env |-> ext.env, flat |-> Record(f.fields, ext.var)]
    [] flat_type.tag = "TagUnion" ->
         LET ext == copy_import_to_help(env, max_rank, flat_type.ext)
             n == reserve_variable_slices(ext.env.target, flat_type.tags.length)
             e == copy_import_slices([ext.env EXCEPT !.target = n.subs], max_rank, n.slice,
                                     UnionTags_variables(flat_type.tags))
             names == extend_tag_names(e, flat_type.tags)
         IN [env |-> names.env,
             flat |-> TagUnion(UnionTags_from_slices(names.slice, n.slice), ext.var)]
    [] flat_type.tag = "FunctionOrTagUnion" ->
         LET names == [env EXCEPT !.target.tag_names =
                         Append(@, At(env.source.tag_names, flat_type.tag_name))]
             ext == copy_import_to_help(names, max_rank, flat_type.ext)
         IN [env |-> ext.env,
             flat |-> FunctionOrTagUnion(Len(env.target.tag_names), flat_type.symbol,
                                         ext.var)]
    [] flat_type.tag = "RecursiveTagUnion" ->
         LET n == reserve_variable_slices(env.target, flat_type.tags.length)
             e == copy_import_slices([env EXCEPT !.target = n.subs], max_rank, n.slice,
                                     UnionTags_variables(flat_type.tags))
             names == extend_tag_names(e, flat_type.tags)
             ext == copy_import_to_help(names.env, max_rank, flat_type.ext)
             rec == copy_import_to_help(ext.env, max_rank, flat_type.rec)
         IN [env |-> rec.env,
             flat |-> RecursiveTagUnion(rec.var,
                                        UnionTags_from_slices(names.slice, n.slice),
                                        ext.var)]

\* a match that gives the copy the content of the source as it is
copy_import_content_as_is(env, max_rank, var, copy, content) ==
  [env EXCEPT !.target = set(@, copy, make_descriptor(content, max_rank))]

\* the match on the content of var; copy is the target variable that stands for it
copy_import_content(env, max_rank, var, copy, content) ==
  CASE content.tag = "Structure" /\ content.flat.tag = "Erroneous" ->
         [env EXCEPT !.target = set(@, copy, make_descriptor(FlexVar(NoName), max_rank))]
    [] content.tag = "Structure" /\ content.flat.tag # "Erroneous" ->
         LET r == copy_import_flat_type(env, max_rank, content.flat)
         IN [r.env EXCEPT !.target =
               set(@, copy, make_descriptor(Structure(r.flat), max_rank))]
    [] content.tag = "FlexVar" /\ content.name # NoName ->
         LET n == push_name_to_target(env, content.name)
         IN [n.env EXCEPT !.target = set_content(@, copy, FlexVar(n.index)),
                          !.flex = Append(@, copy)]
    [] content.tag = "FlexVar" /\ content.name = NoName ->
         [env EXCEPT !.flex = Append(@, copy)]
    [] content.tag = "FlexAbleVar" /\ content.name # NoName ->
         LET n == push_name_to_target(env, content.name)
         IN [n.env EXCEPT !.target =
                            set_content(@, copy, FlexAbleVar(n.index, content.ability)),
                          !.flex_able = Append(@, copy)]
    [] content.tag = "FlexAbleVar" /\ content.name = NoName ->
         [env EXCEPT !.flex_able = Append(@, copy)]
    [] content.tag = "Error" ->
         [env EXCEPT !.target = set(@, copy, make_descriptor(Error, max_rank))]
    [] content.tag = "RigidVar" ->
         LET n == push_name_to_target(env, content.name)
         IN [n.env EXCEPT !.target =
                            set(@, copy, make_descriptor(RigidVar(n.index), max_rank)),
                          !.rigid = Append(@, copy),
                          !.translations = Append(@, << var, copy >>)]
    [] content.tag = "RigidAbleVar" ->
         LET n == push_name_to_target(env, content.name)
         IN [n.env EXCEPT !.target =
                            set(@, copy,
                                make_descriptor(RigidAbleVar(n.index, content.ability),
                                                max_rank)),
                          !.rigid_able = Append(@, copy),
                          !.translations = Append(@, << var, copy >>)]
    [] content.tag = "RecursionVar" ->
         LET r == copy_import_to_help(env, max_rank, content.structure)
         IN [r.env EXCEPT !.target =
               set(@, copy, make_descriptor(RecursionVar(r.var, content.name), max_rank))]
    [] content.tag = "Alias" ->
         LET n == reserve_into_subs(env.target, content.args.all_variables_len)
             e == copy_import_zip([env EXCEPT !.target = n.subs], max_rank, n.slice,
                                  AliasVariables_all_variables(content.args))
             real == copy_import_to_help(e, max_rank, content.real)
         IN [real.env EXCEPT !.target =
               set(@, copy,
                   make_descriptor(Alias(content.symbol,
                                         [content.args EXCEPT
                                            !.variables_start = n.slice.start],
                                         real.var, content.kind),
                                   max_rank))]
    [] content.tag = "RangedNumber" ->
         LET typ == copy_import_to_help(env, max_rank, content.typ)
             n == reserve_into_subs(typ.env.target, content.range.length)
             e == copy_import_zip([typ.env EXCEPT !.target = n.subs], max_rank, n.slice,
                                  content.range)
         IN [e EXCEPT !.target =
               set(@, copy, make_descriptor(RangedNumber(typ.var, n.slice), max_rank))]

copy_import_to_help(env, max_rank, var) ==
  LET desc == get_without_compacting(env.source, var)
  IN IF OptVariable_is_some(desc.copy) THEN [env |-> env, var |-> desc.copy]
     ELSE LET t == fresh(env.target, make_descriptor(unnamed_flex_var, max_rank))
          IN [env |-> copy_import_content(
                        [env EXCEPT !.visited = Append(@, var),
                                    !.target = t.subs,
                                    !.registered = IF is_registered(desc.content)
                                                   THEN Append(@, t.var) ELSE @,
                                    !.source = modify_mark_copy(@, var, t.var)],
                        max_rank, var, t.var, desc.content),
              var |-> t.var]

RECURSIVE copy_import_clear_visited(_, _)
copy_import_clear_visited(source, visited) ==
  IF visited = << >> THEN source
  ELSE LET descriptor == get_ref(source, Head(visited))
       IN copy_import_clear_visited(
            IF OptVariable_is_some(descriptor.copy)
            THEN get_ref_mut_write(source, Head(visited),
                                   [descriptor EXCEPT !.rank = Rank_NONE,
                                                      !.mark = Mark_NONE,
                                                      !.copy = OptVariable_NONE])
            ELSE source,
            Tail(visited))

CopyImportEnv(source, dest) ==
  [visited |-> << >>, source |-> source, target |-> dest, flex |-> << >>,
   rigid |-> << >>, flex_able |-> << >>, rigid_able |-> << >>,
   translations |-> << >>, registered |-> << >>]

\* a call that returns a CopiedImport without translations
copy_import_to_untranslated(source, dest, var, rank) ==
  LET r == copy_import_to_help(CopyImportEnv(source, dest), rank, var)
  IN [source |-> copy_import_clear_visited(r.env.source, r.env.visited),
      target |-> r.env.target,
      copied_import |-> [variable |-> r.var, flex |-> r.env.flex, rigid |-> r.env.rigid,
                         flex_able |-> r.env.flex_able,
                         rigid_able |-> r.env.rigid_able,
                         translations |-> << >>,
                         registered |-> r.env.registered]]

\* gives the two stores the call leaves and the CopiedImport it returns
copy_import_to(source, dest, var, rank) ==
  LET r == copy_import_to_help(CopyImportEnv(source, dest), rank, var)
  IN [source |-> copy_import_clear_visited(r.env.source, r.env.visited),
      target |-> r.env.target,
      copied_import |-> [variable |-> r.var, flex |-> r.env.flex, rigid |-> r.env.rigid,
                         flex_able |-> r.env.flex_able,
                         rigid_able |-> r.env.rigid_able,
                         translations |-> r.env.translations,
                         registered |-> r.env.registered]]

\* ------------------------------------------------ the stores that are copied
\* input is a sequence of triples << field name, field kind, variable >>
RecordFields_insert_into_subs(s, input) ==
  [subs |-> [s EXCEPT
               !.field_names = @ \o [k \in 1..Len(input) |-> input[k][1]],
               !.variables = @ \o [k \in 1..Len(input) |-> input[k][3]],
               !.record_fields = @ \o [k \in 1..Len(input) |-> input[k][2]]],
   fields |-> [length |-> AsU16(Len(input)),
               field_names_start |-> Len(s.field_names),
               variables_start |-> Len(s.variables),
               field_types_start |-> Len(s.record_fields)]]

\* SubsIndex::push_new(&mut subs.field_names, name) followed by set_content
named_flex_var(s, var, name) ==
  set_content([s EXCEPT !.field_names = Append(@, name)], var,
              FlexVar(Len(s.field_names)))

\* the k-th user-space variable
UserVar(k) == FIRST_USER_SPACE_VAR + k

\* f : a -> a with a rigid: the argument and the result are one variable
FuncStore ==
  Only({ set_content(args.subs, UserVar(2),
                     Structure(Func(args.slice, UserVar(1), UserVar(0)))) :
         args \in { VariableSubsSlice_insert_into_subs(s1, << UserVar(0) >>) :
                    s1 \in { rigid_var(extend_by(Subs_new, 3), UserVar(0), << "a" >>) } } })

\* a recursive tag union [ Cons e r, Nil ] as r: a cycle through the recursion
\* variable; the payload names a variable that is redirected to e
ListStore ==
  Only({ set_content(t.subs, UserVar(3),
                     Structure(RecursiveTagUnion(UserVar(2), t.tags,
                                                 Var("EMPTY_TAG_UNION")))) :
         t \in { UnionTags_insert_into_subs(s3,
                   << << TagName_Tag(<< "C", "o", "n", "s" >>),
                         << UserVar(1), UserVar(2) >> >>,
                      << TagName_Tag(<< "N", "i", "l" >>), << >> >> >>) :
                 s3 \in { set_content(s2, UserVar(2), RecursionVar(UserVar(3), NoName)) :
                          s2 \in { union(s1, UserVar(0), UserVar(1),
                                         get_ref(s1, UserVar(0))) :
                                   s1 \in { named_flex_var(extend_by(Subs_new, 4),
                                                           UserVar(0), << "e" >>) } } } } })

\* a record { x : k, y ? h } with k a rigid able variable and h an unnamed flex able one
RecordStore ==
  Only({ set_content(f.subs, UserVar(2),
                     Structure(Record(f.fields, Var("EMPTY_RECORD")))) :
         f \in { RecordFields_insert_into_subs(s2,
                   << << << "x" >>, "Required", UserVar(0) >>,
                      << << "y" >>, "Optional", UserVar(1) >> >>) :
                 s2 \in { set_content(s1, UserVar(1), FlexAbleVar(NoName, "EQ")) :
                          s1 \in { rigid_able_var(extend_by(Subs_new, 3), UserVar(0),
                                                  << "k" >>, "HASH") } } } })

\* an alias of an application, and a ranged number over both
AliasStore ==
  Only({ set_content(r.subs, UserVar(3), RangedNumber(UserVar(2), r.slice)) :
         r \in { VariableSubsSlice_insert_into_subs(s3, << UserVar(1), UserVar(0) >>) :
                 s3 \in { set_content(a.subs, UserVar(2),
                                      Alias("MY_LIST", a.vars, UserVar(1), "Structural")) :
                          a \in { AliasVariables_insert_into_subs(s2, << UserVar(0) >>, << >>) :
                                  s2 \in { set_content(l.subs, UserVar(1),
                                                       Structure(Apply("LIST_LIST", l.slice))) :
                                           l \in { VariableSubsSlice_insert_into_subs(
                                                     s1, << UserVar(0) >>) :
                                                   s1 \in { named_flex_var(
                                                              extend_by(Subs_new, 4),
                                                              UserVar(0), << "t" >>) } } } } } } })

\* a tag union over an error and an erroneous structure, open to a function tag
ErrorStore ==
  Only({ set_content(t.subs, UserVar(2), Structure(TagUnion(t.tags, UserVar(3)))) :
         t \in { UnionTags_insert_into_subs(s3,
                   << << TagName_Tag(<< "A" >>), << UserVar(0) >> >>,
                      << TagName_Tag(<< "B" >>), << UserVar(1), UserVar(0) >> >> >>) :
                 s3 \in { set_content([s2 EXCEPT !.tag_names = Append(@, TagName_Closure("F"))],
                                      UserVar(3),
                                      Structure(FunctionOrTagUnion(Len(s2.tag_names), "F",
                                                                   Var("EMPTY_TAG_UNION")))) :
                          s2 \in { set_content([s1 EXCEPT !.problems =
                                                  Append(@, "CanonicalizationProblem")],
                                               UserVar(1),
                                               Structure(Erroneous(Len(s1.problems)))) :
                                   s1 \in { set_content(extend_by(Subs_new, 4), UserVar(0),
                                                        Error) } } } } })

\* a recursive tag union [ Next r ] as r whose recursion variable is named
NamedRecStore ==
  Only({ set_content(t.subs, UserVar(1),
                     Structure(RecursiveTagUnion(UserVar(0), t.tags,
                                                 Var("EMPTY_TAG_UNION")))) :
         t \in { UnionTags_insert_into_subs(s2,
                   << << TagName_Tag(<< "N", "e", "x", "t" >>), << UserVar(0) >> >> >>) :
                 s2 \in { set_content([s1 EXCEPT !.field_names = Append(@, << "r" >>)],
                                      UserVar(0),
                                      RecursionVar(UserVar(1), Len(s1.field_names))) :
                          s1 \in { extend_by(Subs_new, 2) } } } })

CopySources ==
  { FuncStore, ListStore, RecordStore, AliasStore, ErrorStore, NamedRecStore }

\* the variables a copy starts from
CopyRoots(s) == UserVars(s) \cup { Var("BOOL") }

\* calls of deep_copy_var_to and copy_import_to made on one pair of stores
MaxCopies == 2

InitCopy ==
  /\ subs \in CopySources
  /\ target = Subs_new
  /\ snapshots = << >>
  /\ saved = << >>
  /\ last = [op |-> "new", prev |-> "new", calls |-> 0]

\* last records the variable copied, the variable returned and the length the
\* target had before the call
DeepCopyVarTo ==
  \E var \in CopyRoots(subs) :
    \E r \in { deep_copy_var_to(subs, target, var) } :
      /\ last.calls < MaxCopies
      /\ subs' = r.source
      /\ target' = r.target
      /\ last' = [op |-> "deep_copy_var_to", prev |-> last.op, calls |-> last.calls + 1,
                  var |-> var, copy |-> r.var, before |-> Subs_len(target)]
      /\ UNCHANGED << snapshots, saved >>

CopyImportTo ==
  \E var \in CopyRoots(subs) :
    \E r \in { copy_import_to(subs, target, var, Rank_import) } :
      /\ last.calls < MaxCopies
      /\ subs' = r.source
      /\ target' = r.target
      /\ last' = [op |-> "copy_import_to", prev |-> last.op, calls |-> last.calls + 1,
                  var |-> var, copy |-> r.copied_import.variable,
                  before |-> Subs_len(target), import |-> r.copied_import]
      /\ UNCHANGED << snapshots, saved >>

NextCopy ==
  \/ DeepCopyVarTo
  \/ CopyImportTo

SpecCopy == InitCopy /\ [][NextCopy]_vars

\* ------------------------------------------------------- copy properties
RECURSIVE Flatten(_)
Flatten(seqs) == IF seqs = << >> THEN << >> ELSE Head(seqs) \o Flatten(Tail(seqs))

VarsOf(s, slice) == SliceOf(s.variables, slice.start, slice.length)

\* the payload variables of a union's tags, tag by tag
PayloadsOf(s, tags) ==
  LET slices == SliceOf(s.variable_slices, tags.variables_start, tags.length)
  IN [k \in 1..Len(slices) |-> VarsOf(s, slices[k])]

\* the variables the content of v holds, in the order of their positions
Children(s, v) ==
  LET c == get_content_without_compacting(s, v)
      f == c.flat
  IN CASE c.tag = "RecursionVar" -> << c.structure >>
       [] c.tag = "Alias" -> VarsOf(s, AliasVariables_all_variables(c.args)) \o << c.real >>
       [] c.tag = "RangedNumber" -> << c.typ >> \o VarsOf(s, c.range)
       [] c.tag = "Structure" /\ f.tag = "Apply" -> VarsOf(s, f.args)
       [] c.tag = "Structure" /\ f.tag = "Func" ->
            VarsOf(s, f.args) \o << f.closure, f.ret >>
       [] c.tag = "Structure" /\ f.tag = "Record" ->
            VarsOf(s, RecordFields_variables(f.fields)) \o << f.ext >>
       [] c.tag = "Structure" /\ f.tag = "TagUnion" ->
            Flatten(PayloadsOf(s, f.tags)) \o << f.ext >>
       [] c.tag = "Structure" /\ f.tag = "FunctionOrTagUnion" -> << f.ext >>
       [] c.tag = "Structure" /\ f.tag = "RecursiveTagUnion" ->
            Flatten(PayloadsOf(s, f.tags)) \o << f.ext, f.rec >>
       [] OTHER -> << >>

\* the name an optional index into field_names stands for
NameAt(s, index) ==
  IF index = NoName THEN << >>
  ELSE IF index < Len(s.field_names) THEN << At(s.field_names, index) >>
  ELSE << << "?" >> >>

TagLabel(t) == IF t.tag = "Tag" THEN << "Tag" >> \o t.name ELSE << "Closure", t.symbol >>

TagLabels(s, tags) ==
  LET names == SliceOf(s.tag_names, tags.tag_names_start, tags.length)
  IN [k \in 1..Len(names) |-> TagLabel(names[k])]

\* with flex set, a rigid variable counts as the flex variable of the same name
VariantOf(c, flex) ==
  CASE c.tag = "Structure" -> c.flat.tag
    [] flex /\ c.tag = "RigidVar" -> "FlexVar"
    [] flex /\ c.tag = "RigidAbleVar" -> "FlexAbleVar"
    [] OTHER -> c.tag

\* what the content of v says apart from the variables it holds: its variant,
\* symbol, name, ability, tag or field names, and the arity of each position
Shape(s, v, flex) ==
  LET c == get_content_without_compacting(s, v)
      f == c.flat
  IN [variant |-> VariantOf(c, flex),
      name |-> IF c.tag \in { "FlexVar", "RigidVar", "FlexAbleVar", "RigidAbleVar",
                              "RecursionVar" }
               THEN NameAt(s, c.name) ELSE << >>,
      ability |-> IF c.tag \in { "FlexAbleVar", "RigidAbleVar" } THEN c.ability ELSE "",
      symbol |-> CASE c.tag = "Alias" -> c.symbol
                   [] c.tag = "Structure" /\ f.tag \in { "Apply", "FunctionOrTagUnion" } ->
                        f.symbol
                   [] OTHER -> "",
      kind |-> IF c.tag = "Alias" THEN c.kind ELSE "",
      labels |-> CASE c.tag = "Structure" /\ f.tag \in { "TagUnion", "RecursiveTagUnion" } ->
                        TagLabels(s, f.tags)
                   [] c.tag = "Structure" /\ f.tag = "FunctionOrTagUnion" ->
                        << TagLabel(At(s.tag_names, f.tag_name)) >>
                   [] c.tag = "Structure" /\ f.tag = "Record" ->
                        SliceOf(s.field_names, f.fields.field_names_start, f.fields.length)
                   [] OTHER -> << >>,
      arity |-> CASE c.tag = "Structure" /\ f.tag \in { "TagUnion", "RecursiveTagUnion" } ->
                       [k \in 1..f.tags.length |-> Len(PayloadsOf(s, f.tags)[k])]
                  [] c.tag = "Alias" -> << c.args.type_variables_len >>
                  [] OTHER -> << >>,
      children |-> Len(Children(s, v))]

Min(a, b) == IF a < b THEN a ELSE b

\* the pairs of classes found at the same position one step below a pair of R
PairsBelow(s, t, R) ==
  UNION { { << get_root_key_without_compacting(s, Children(s, p[1])[i]),
               get_root_key_without_compacting(t, Children(t, p[2])[i]) >> :
            i \in 1..Min(Len(Children(s, p[1])), Len(Children(t, p[2]))) } : p \in R }

\* the pairs of classes found at the same position at any depth below R
RECURSIVE Corresponding(_, _, _)
Corresponding(s, t, R) ==
  IF PairsBelow(s, t, R) \subseteq R THEN R
  ELSE Corresponding(s, t, R \cup PairsBelow(s, t, R))

\* the classes of the source and of the target at corresponding positions of the
\* graph below the variable last copied and of the graph below its copy
CopyPairs ==
  Corresponding(subs, target,
                { << get_root_key_without_compacting(subs, last.var),
                     get_root_key_without_compacting(target, last.copy) >> })

NoCopies(s) == \A v \in AllVars(s) : At(s.utable, v).value.copy = OptVariable_NONE

\* C7: after deep_copy_var_to the graph below the copy is isomorphic to the
\* graph below the variable copied: classes at corresponding positions are in
\* one-to-one correspondence and have the same variant, symbol, name, tag and
\* field names and arity, a rigid variable counting as the flex variable of
\* the same name.
C7_DeepCopyIsomorphic ==
  last.op = "deep_copy_var_to" =>
    /\ \A p \in CopyPairs : Shape(subs, p[1], TRUE) = Shape(target, p[2], FALSE)
    /\ \A p, q \in CopyPairs : (p[1] = q[1]) <=> (p[2] = q[2])

\* C8: a call of deep_copy_var_to or copy_import_to that starts with every copy
\* field of the source and of the target unset ends with every copy field of
\* both unset.
C8_CopyNoneAfterPass ==
  [][(/\ last'.op \in { "deep_copy_var_to", "copy_import_to" }
      /\ NoCopies(subs) /\ NoCopies(target))
     => NoCopies(subs') /\ NoCopies(target')]_vars

\* both calls have run on a cyclic graph whose payload names a redirected variable
C8_Witness ==
  /\ last.op = "copy_import_to"
  /\ last.prev = "deep_copy_var_to"
  /\ get_root_key_without_compacting(subs, last.var) \in { p[1] : p \in PairsBelow(subs, target, CopyPairs) }
  /\ \E p \in CopyPairs : \E i \in 1..Len(Children(subs, p[1])) :
       redundant(subs, Children(subs, p[1])[i])
  /\ NoCopies(subs)

\* C9: after deep_copy_var_to or copy_import_to, positions that hold one class
\* of the source hold one class of the target, and the target has grown by one
\* variable for each class of the source below the variable copied.
C9_SharingPreserved ==
  last.op \in { "deep_copy_var_to", "copy_import_to" } =>
    /\ \A p, q \in CopyPairs : p[1] = q[1] => p[2] = q[2]
    /\ Subs_len(target) - last.before = Cardinality({ p[1] : p \in CopyPairs })

\* f : a -> a has been copied
C9_Witness ==
  /\ last.op = "deep_copy_var_to"
  /\ LET c == get_content_without_compacting(subs, last.var)
     IN /\ c.tag = "Structure"
        /\ c.flat.tag = "Func"
        /\ VarsOf(subs, c.flat.args) = << c.flat.ret >>

\* ========================================================= serialization
\* The written bytes are a sequence of cells, one for each byte.  A value of
\* size n fills n cells: the first holds the value and names its type, the
\* other n - 1 are the rest of its bytes.  Reading a type at an offset gives
\* what the cell there holds; read is set when the cell was written as that type.

\* Rank(u32::MAX) and Mark(i32::MAX) of the descriptor written for a redirect;
\* ranks are only compared, and the largest integer stands for u32::MAX
Rank_MAX == 2147483647

Mark_MAX == 2147483647

\* std::mem::size_of and std::mem::align_of: a descriptor is 5 * 8 bytes and a
\* symbol 8 bytes aligned to 4, as the size assertions of the module state
size_of(T) ==
  CASE T = "SubsHeader" -> 56
    [] T = "Descriptor" -> 40
    [] T = "Variable" -> 4
    [] T = "SerializedTagName" -> 12
    [] T = "SubsSlice" -> 8
    [] T = "RecordField" -> 1
    [] T = "Symbol_Variable" -> 12
    [] T = "u8" -> 1

align_of(T) ==
  CASE T = "SubsHeader" -> 8
    [] T = "Descriptor" -> 4
    [] T = "Variable" -> 4
    [] T = "SerializedTagName" -> 4
    [] T = "SubsSlice" -> 4
    [] T = "RecordField" -> 1
    [] T = "Symbol_Variable" -> 4
    [] T = "u8" -> 1

SubsHeader_from_subs(s, exposed_vars_by_symbol) ==
  [utable |-> Len(s.utable), variables |-> Len(s.variables),
   tag_names |-> Len(s.tag_names), field_names |-> Len(s.field_names),
   record_fields |-> Len(s.record_fields), variable_slices |-> Len(s.variable_slices),
   exposed_vars_by_symbol |-> exposed_vars_by_symbol]

slice_as_bytes(slice, T) ==
  [j \in 1..(Len(slice) * size_of(T)) |->
     IF (j - 1) % size_of(T) = 0
     THEN [ty |-> T, item |-> << slice[(j - 1) \div size_of(T) + 1] >>]
     ELSE [ty |-> "", item |-> << >>]]

round_to_multiple_of(value, base) == ((value + (base - 1)) \div base) * base

\* a writer is the cells written so far and the count the caller keeps of them
serialize_slice(slice, T, w) ==
  LET padding_bytes == round_to_multiple_of(w.written, align_of(T)) - w.written
  IN [out |-> w.out \o [k \in 1..padding_bytes |-> [ty |-> "", item |-> << >>]]
                    \o slice_as_bytes(slice, T),
      written |-> w.written + padding_bytes + Len(slice) * size_of(T)]

\* the descriptor written for the variable var
serialized_descriptor(ut, var) ==
  IF ut_is_redirect(ut, var)
  THEN Descriptor(Error, Rank_MAX, Mark_MAX, ut_get_root_key_without_compacting(ut, var))
  ELSE ut_probe_value_without_compacting(ut, var)

serialize_unification_table(ut, w) ==
  [out |-> w.out \o slice_as_bytes([i \in 1..Len(ut) |-> serialized_descriptor(ut, i - 1)],
                                   "Descriptor"),
   written |-> w.written + Len(ut) * size_of("Descriptor")]

\* the loop over the names: each name is appended to buf and its slice kept
RECURSIVE serialize_names_loop(_, _, _)
serialize_names_loop(names, buf, slices) ==
  IF names = << >> THEN [buf |-> buf, slices |-> slices]
  ELSE LET r == SubsSlice_extend_new(buf, Head(names))
       IN serialize_names_loop(Tail(names), r.vec, Append(slices, r.slice))

serialize_field_names(lowercases, w) ==
  LET r == serialize_names_loop(lowercases, << >>, << >>)
  IN serialize_slice(r.buf, "u8", serialize_slice(r.slices, "SubsSlice", w))

SerializedTagName_Global(slice) == [tag |-> "Global", slice |-> slice]

SerializedTagName_Closure(symbol) == [tag |-> "Closure", symbol |-> symbol]

RECURSIVE serialize_tag_names_loop(_, _, _)
serialize_tag_names_loop(tag_names, buf, slices) ==
  IF tag_names = << >> THEN [buf |-> buf, slices |-> slices]
  ELSE IF Head(tag_names).tag = "Tag"
  THEN LET r == SubsSlice_extend_new(buf, Head(tag_names).name)
       IN serialize_tag_names_loop(Tail(tag_names), r.vec,
                                   Append(slices, SerializedTagName_Global(r.slice)))
  ELSE serialize_tag_names_loop(Tail(tag_names), buf,
                                Append(slices,
                                       SerializedTagName_Closure(Head(tag_names).symbol)))

serialize_tag_names(tag_names, w) ==
  LET r == serialize_tag_names_loop(tag_names, << >>, << >>)
  IN serialize_slice(r.buf, "u8", serialize_slice(r.slices, "SerializedTagName", w))

\* gives the writer after the call; out holds the bytes written
serialize(s, exposed_vars_by_symbol) ==
  LET header == slice_as_bytes(<< SubsHeader_from_subs(s, Len(exposed_vars_by_symbol)) >>,
                               "SubsHeader")
      w1 == serialize_unification_table(s.utable, [out |-> header, written |-> Len(header)])
      w2 == serialize_slice(s.variables, "Variable", w1)
      w3 == serialize_tag_names(s.tag_names, w2)
      w4 == serialize_field_names(s.field_names, w3)
      w5 == serialize_slice(s.record_fields, "RecordField", w4)
      w6 == serialize_slice(s.variable_slices, "SubsSlice", w5)
  IN serialize_slice(exposed_vars_by_symbol, "Symbol_Variable", w6)

\* the value of type T at a byte offset: what was written there as a T, and
\* otherwise the bytes found there taken for a T
read_as(bytes, at, T) ==
  IF bytes[at + 1].ty = T THEN bytes[at + 1].item[1]
  ELSE [bytes_as |-> T, cells |-> SliceOf(bytes, at, size_of(T))]

\* &bytes[offset..][..byte_length] panics when the bytes end before it does
deserialize_slice(bytes, length, offset, T) ==
  LET start == round_to_multiple_of(offset, align_of(T))
      byte_length == length * size_of(T)
  IN IF start + byte_length > Len(bytes)
     THEN [slice |-> << >>, offset |-> start + byte_length, panic |-> TRUE]
     ELSE [slice |-> [k \in 1..length |-> read_as(bytes, start + (k - 1) * size_of(T), T)],
           offset |-> start + byte_length, panic |-> FALSE]

\* a descriptor with the largest rank and mark stands for a redirect
is_redirect_descriptor(desc) == desc.rank = Rank_MAX /\ desc.mark = Mark_MAX

keyed_redirect(pair) == is_redirect_descriptor(pair[2])

\* the first loop: new_key gives descriptor k the key k - 1; roots gets the pair
\* (var, root) of each redirect, and the unwrap panics on a copy that is none
deserialize_new_keys(slice) ==
  LET keyed == SelectSeq([k \in 1..Len(slice) |-> << k - 1, slice[k] >>], keyed_redirect)
  IN [utable |-> [k \in 1..Len(slice) |-> ut_new_value(k - 1, slice[k])],
      roots |-> [k \in 1..Len(keyed) |-> << keyed[k][1], keyed[k][2].copy >>],
      panic |-> \E k \in 1..Len(keyed) : ~OptVariable_is_some(keyed[k][2].copy)]

\* the second loop
RECURSIVE deserialize_unify_roots(_, _)
deserialize_unify_roots(utable, roots) ==
  IF roots = << >> THEN utable
  ELSE LET var == Head(roots)[1]
           root == Head(roots)[2]
           desc == ut_probe_value_without_compacting(utable, root)
       IN deserialize_unify_roots(ut_unify_roots(utable, var, root, desc), Tail(roots))

deserialize_unification_table(bytes, length, offset) ==
  LET byte_length == length * size_of("Descriptor")
  IN IF offset + byte_length > Len(bytes)
     THEN [utable |-> << >>, offset |-> offset + byte_length, panic |-> TRUE]
     ELSE LET slice == [k \in 1..length |->
                          read_as(bytes, offset + (k - 1) * size_of("Descriptor"),
                                  "Descriptor")]
              r == deserialize_new_keys(slice)
          IN [utable |-> IF r.panic THEN r.utable
                         ELSE deserialize_unify_roots(r.utable, r.roots),
              offset |-> offset + byte_length, panic |-> r.panic]

\* &string_slice[subs_slice.indices()] where string_slice is &bytes[offset..]
string_bytes(bytes, string_offset, subs_slice) ==
  [k \in 1..subs_slice.length |->
     read_as(bytes, string_offset + subs_slice.start + k - 1, "u8")]

string_in_bounds(bytes, string_offset, subs_slice) ==
  string_offset + subs_slice.start + subs_slice.length <= Len(bytes)

\* the loop over the slices; offset grows by the length of each string read
RECURSIVE deserialize_names_loop(_, _, _, _, _)
deserialize_names_loop(bytes, string_offset, slices, lowercases, offset) ==
  IF slices = << >> THEN [names |-> lowercases, offset |-> offset, panic |-> FALSE]
  ELSE IF ~string_in_bounds(bytes, string_offset, Head(slices))
  THEN [names |-> lowercases, offset |-> offset, panic |-> TRUE]
  ELSE deserialize_names_loop(bytes, string_offset, Tail(slices),
                              Append(lowercases,
                                     string_bytes(bytes, string_offset, Head(slices))),
                              offset + Head(slices).length)

deserialize_field_names(bytes, length, offset) ==
  LET r == deserialize_slice(bytes, length, offset, "SubsSlice")
  IN IF r.panic THEN [names |-> << >>, offset |-> r.offset, panic |-> TRUE]
     ELSE deserialize_names_loop(bytes, r.offset, r.slice, << >>, r.offset)

RECURSIVE deserialize_tag_names_loop(_, _, _, _, _)
deserialize_tag_names_loop(bytes, string_offset, slices, tag_names, offset) ==
  IF slices = << >> THEN [names |-> tag_names, offset |-> offset, panic |-> FALSE]
  ELSE IF Head(slices).tag = "Closure"
  THEN deserialize_tag_names_loop(bytes, string_offset, Tail(slices),
                                  Append(tag_names, TagName_Closure(Head(slices).symbol)),
                                  offset)
  ELSE IF ~string_in_bounds(bytes, string_offset, Head(slices).slice)
  THEN [names |-> tag_names, offset |-> offset, panic |-> TRUE]
  ELSE deserialize_tag_names_loop(bytes, string_offset, Tail(slices),
                                  Append(tag_names,
                                         TagName_Tag(string_bytes(bytes, string_offset,
                                                                  Head(slices).slice))),
                                  offset + Head(slices).slice.length)

deserialize_tag_names(bytes, length, offset) ==
  LET r == deserialize_slice(bytes, length, offset, "SerializedTagName")
  IN IF r.panic THEN [names |-> << >>, offset |-> r.offset, panic |-> TRUE]
     ELSE deserialize_tag_names_loop(bytes, r.offset, r.slice, << >>, r.offset)

\* panic is set when an index or an unwrap in the code panics; subs and
\* exposed_vars_by_symbol are what the call returns when none does
deserialize(bytes) ==
  LET header == read_as(bytes, 0, "SubsHeader")
      u == deserialize_unification_table(bytes, header.utable, size_of("SubsHeader"))
      v == deserialize_slice(bytes, header.variables, u.offset, "Variable")
      t == deserialize_tag_names(bytes, header.tag_names, v.offset)
      f == deserialize_field_names(bytes, header.field_names, t.offset)
      r == deserialize_slice(bytes, header.record_fields, f.offset, "RecordField")
      vs == deserialize_slice(bytes, header.variable_slices, r.offset, "SubsSlice")
      e == deserialize_slice(bytes, header.exposed_vars_by_symbol, vs.offset,
                             "Symbol_Variable")
  IN [subs |-> [utable |-> u.utable, variables |-> v.slice, tag_names |-> t.names,
                field_names |-> f.names, record_fields |-> r.slice,
                variable_slices |-> vs.slice, problems |-> << >>],
      exposed_vars_by_symbol |-> e.slice,
      panic |-> u.panic \/ v.panic \/ t.panic \/ f.panic \/ r.panic \/ vs.panic \/ e.panic]

\* ------------------------------------------------- stores that are written
\* a tag union of a closure tag, and a function-or-tag-union that names it
ClosureStore ==
  Only({ set_content(t.subs, UserVar(1), Structure(TagUnion(t.tags, UserVar(0)))) :
         t \in { UnionTags_insert_into_subs(s2,
                   << << TagName_Closure("F"), << UserVar(0) >> >>,
                      << TagName_Tag(<< "G" >>), << >> >> >>) :
                 s2 \in { set_content([s1 EXCEPT !.tag_names =
                                         Append(@, TagName_Closure("F"))],
                                      UserVar(0),
                                      Structure(FunctionOrTagUnion(Len(s1.tag_names), "F",
                                                                   Var("EMPTY_TAG_UNION")))) :
                          s1 \in { extend_by(Subs_new, 2) } } } })

\* a name of 2^16 bytes, the shortest whose length does not fit 16 bits
LongName == [k \in 1..(2 ^ U16Bits) |-> "a"]

\* a rigid variable of that name
LongNameStore ==
  Only({ rigid_var(s1, UserVar(0), LongName) : s1 \in { extend_by(Subs_new, 2) } })

SerializeSources ==
  { ListStore, RecordStore, ClosureStore, LongNameStore }

ExposedChoices ==
  { << >>, << << "MY_LIST", UserVar(0) >> >>,
    << << "MY_LIST", UserVar(1) >>, << "BOOL_BOOL", Var("BOOL") >> >> }

\* unions made on a store before it is written
MaxUnions == 1

InitSerialize ==
  /\ subs \in SerializeSources
  /\ target = Subs_new
  /\ snapshots = << >>
  /\ saved = << >>
  /\ last = [op |-> "new", calls |-> 0]

SerializeUnion ==
  \E l \in CopyRoots(subs), r \in CopyRoots(subs) :
    /\ last.calls < MaxUnions
    /\ subs' = union(subs, l, r, get_ref(subs, l))
    /\ last' = [op |-> "union", calls |-> last.calls + 1]
    /\ UNCHANGED << target, snapshots, saved >>

\* serialize writes subs, deserialize reads what was written into target; a
\* panic leaves no store
RoundTrip ==
  \E exposed \in ExposedChoices :
    \E r \in { deserialize(serialize(subs, exposed).out) } :
      /\ subs.problems = << >>
      /\ target' = IF r.panic THEN target ELSE r.subs
      /\ last' = [op |-> "deserialize", calls |-> last.calls, panic |-> r.panic,
                  exposed |-> exposed,
                  returned |-> IF r.panic THEN << >> ELSE r.exposed_vars_by_symbol]
      /\ UNCHANGED << subs, snapshots, saved >>

NextSerialize ==
  \/ SerializeUnion
  \/ RoundTrip

SpecSerialize == InitSerialize /\ [][NextSerialize]_vars

\* ------------------------------------------------ serialization properties
\* C10: deserialize(serialize(s)) of a store without problems gives a store with
\* as many variables, in which every variable has the root and the descriptor
\* it has in s, the tag_names, field_names, variables, record_fields and
\* variable_slices arenas are those of s, and the exposed list returned is the
\* one written.
C10_RoundTrip ==
  last.op = "deserialize" =>
    /\ ~last.panic
    /\ SameTable(target, subs)
    /\ target.tag_names = subs.tag_names
    /\ target.field_names = subs.field_names
    /\ target.variables = subs.variables
    /\ target.record_fields = subs.record_fields
    /\ target.variable_slices = subs.variable_slices
    /\ last.returned = last.exposed

\* =========================================================== occurs check
\* Result<(), (Variable, Vec<Variable>)>
Ok == [tag |-> "Ok"]

Err(culprit, path) == [tag |-> "Err", culprit |-> culprit, path |-> path]

RECURSIVE occurs(_, _, _, _)
RECURSIVE short_circuit(_, _, _, _, _)

\* a loop step that hands on the failure of its element as it is
short_circuit_help_unpushed(s, root_key, seen, var, include_recursion_var) ==
  occurs(s, seen, var, include_recursion_var)

\* a failing element gets root_key pushed on the path it reports
short_circuit_help(s, root_key, seen, var, include_recursion_var) ==
  LET r == occurs(s, seen, var, include_recursion_var)
  IN IF r.tag = "Err" THEN Err(r.culprit, Append(r.path, root_key)) ELSE Ok

\* the loop returns at the first element that fails
short_circuit(s, root_key, seen, iter, include_recursion_var) ==
  IF iter = << >> THEN Ok
  ELSE LET r == short_circuit_help(s, root_key, seen, Head(iter), include_recursion_var)
       IN IF r.tag = "Err" THEN r
          ELSE short_circuit(s, root_key, seen, Tail(iter), include_recursion_var)

\* a check that visits nothing below a content
occurs_iter_of_leaf(s, content) == << >>

\* the variables the check visits below a content, in the order it visits them
occurs_iter(s, content) ==
  LET f == content.flat
  IN CASE content.tag = "Alias" -> VarsOf(s, AliasVariables_all_variables(content.args))
       [] content.tag = "RangedNumber" -> << content.typ >>
       [] content.tag = "Structure" /\ f.tag = "Apply" -> VarsOf(s, f.args)
       [] content.tag = "Structure" /\ f.tag = "Func" ->
            << f.ret, f.closure >> \o VarsOf(s, f.args)
       [] content.tag = "Structure" /\ f.tag = "Record" ->
            << f.ext >> \o VarsOf(s, RecordFields_variables(f.fields))
       [] content.tag = "Structure" /\ f.tag \in { "TagUnion", "RecursiveTagUnion" } ->
            Flatten(PayloadsOf(s, f.tags)) \o << f.ext >>
       [] content.tag = "Structure" /\ f.tag = "FunctionOrTagUnion" -> << f.ext >>
       [] OTHER -> << >>

\* seen with root_var pushed and nothing else
occurs_new_seen_of_root(s, seen, root_var, content, include_recursion_var) ==
  Append(seen, root_var)

\* seen with root_var pushed and, for a recursive tag union of a check that
\* includes recursion variables, the root of its recursion variable
occurs_new_seen(s, seen, root_var, content, include_recursion_var) ==
  IF /\ content.tag = "Structure"
     /\ content.flat.tag = "RecursiveTagUnion"
     /\ include_recursion_var
  THEN Append(Append(seen, root_var),
              get_root_key_without_compacting(s, content.flat.rec))
  ELSE Append(seen, root_var)

\* a check that finds no variable among the ones seen, and stops three levels down
occurs_unseen(s, seen, input_var, include_recursion_var) ==
  LET root_var == get_root_key_without_compacting(s, input_var)
      content == get_content_without_compacting(s, root_var)
  IN IF Len(seen) > 3 THEN Ok
     ELSE short_circuit(s, root_var,
                        occurs_new_seen(s, seen, root_var, content, include_recursion_var),
                        occurs_iter(s, content), include_recursion_var)

occurs(s, seen, input_var, include_recursion_var) ==
  LET root_var == get_root_key_without_compacting(s, input_var)
      content == get_content_without_compacting(s, root_var)
  IN IF \E k \in 1..Len(seen) : seen[k] = root_var THEN Err(root_var, << >>)
     ELSE short_circuit(s, root_var,
                        occurs_new_seen(s, seen, root_var, content, include_recursion_var),
                        occurs_iter(s, content), include_recursion_var)

Subs_occurs(s, var) == occurs(s, << >>, var, FALSE)

occurs_including_recursion_vars(s, var) == occurs(s, << >>, var, TRUE)

\* ------------------------------------------------ graphs that are checked
\* four variables, the fourth redirected to the first, and the arena entries
\* that the contents below refer to
OccursBuild ==
  Only({ Only({ Only({ [subs |-> f.subs, args |-> a.slice, tags |-> t.tags,
                        fields |-> f.fields] :
                       f \in { RecordFields_insert_into_subs(t.subs,
                                 << << << "x" >>, "Required", UserVar(1) >>,
                                    << << "y" >>, "Optional", UserVar(2) >> >>) } }) :
                t \in { UnionTags_insert_into_subs(a.subs,
                          << << TagName_Tag(<< "C", "o", "n", "s" >>),
                                << UserVar(1), UserVar(3) >> >>,
                             << TagName_Tag(<< "N", "i", "l" >>), << >> >> >>) } }) :
         a \in { VariableSubsSlice_insert_into_subs(s1,
                   << UserVar(0), UserVar(1), UserVar(2), UserVar(3) >>) :
                 s1 \in { union(s0, UserVar(0), UserVar(3), get_ref(s0, UserVar(0))) :
                          s0 \in { extend_by(Subs_new, 4) } } } })

\* the contents a variable of the graph is given
OccursContentsOf(b) ==
  { unnamed_flex_var,
    Structure(Apply("LIST_LIST", SubsSlice_new(b.args.start, 1))),
    Structure(Apply("LIST_LIST", SubsSlice_new(b.args.start + 1, 2))),
    Structure(Func(SubsSlice_new(b.args.start + 1, 1), UserVar(2), UserVar(0))),
    Structure(Record(b.fields, Var("EMPTY_RECORD"))),
    Structure(TagUnion(b.tags, UserVar(2))),
    Structure(RecursiveTagUnion(UserVar(1), b.tags, Var("EMPTY_TAG_UNION"))),
    Alias("MY_LIST", [variables_start |-> b.args.start + 1, all_variables_len |-> 1,
                      type_variables_len |-> 1], UserVar(0), "Structural"),
    RangedNumber(UserVar(1), SubsSlice_new(b.args.start, 1)),
    RecursionVar(UserVar(0), NoName) }

OccursContents == UNION { OccursContentsOf(b) : b \in { OccursBuild } }

OccursVars == { UserVar(0), UserVar(1), UserVar(2), UserVar(3) }

InitOccurs ==
  /\ subs = OccursBuild.subs
  /\ target = Subs_new
  /\ snapshots = << >>
  /\ saved = << >>
  /\ last = [op |-> "new"]

OccursSetContent ==
  \E v \in OccursVars \ { UserVar(3) }, c \in OccursContents :
    /\ subs' = set_content(subs, v, c)
    /\ last' = [op |-> "set_content"]
    /\ UNCHANGED << target, snapshots, saved >>

\* occurs and occurs_including_recursion_vars borrow the store without changing it
OccursCheck ==
  \E v \in OccursVars, include_recursion_var \in BOOLEAN :
    /\ last' = [op |-> "occurs", var |-> v, include |-> include_recursion_var,
                result |-> IF include_recursion_var
                           THEN occurs_including_recursion_vars(subs, v)
                           ELSE Subs_occurs(subs, v)]
    /\ UNCHANGED << subs, target, snapshots, saved >>

NextOccurs ==
  \/ OccursSetContent
  \/ OccursCheck

SpecOccurs == InitOccurs /\ [][NextOccurs]_vars

\* --------------------------------------------------- occurs properties
RootsOf(s, S) == { get_root_key_without_compacting(s, x) : x \in S }

Elements(seq) == { seq[k] : k \in 1..Len(seq) }

\* the variables a path goes on to from w: the arguments, fields, payloads,
\* closure, result and extension of a structure, the arguments of an alias and
\* the typ of a ranged number; unless followed is set, also the variable an
\* alias stands for and the range of a ranged number
Kids(s, w, followed) ==
  LET c == get_content_without_compacting(s, w)
  IN CASE c.tag = "RecursionVar" -> { }
       [] c.tag = "Alias" /\ followed ->
            Elements(VarsOf(s, AliasVariables_all_variables(c.args)))
       [] c.tag = "RangedNumber" /\ followed -> { c.typ }
       [] c.tag = "Structure" /\ c.flat.tag = "RecursiveTagUnion" ->
            Elements(Flatten(PayloadsOf(s, c.flat.tags))) \cup { c.flat.ext }
       [] OTHER -> Elements(Children(s, w))

\* the roots reached from the roots S in any number of steps
RECURSIVE Reach(_, _, _)
Reach(s, S, followed) ==
  LET T == S \cup UNION { RootsOf(s, Kids(s, w, followed)) : w \in S }
  IN IF T = S THEN S ELSE Reach(s, T, followed)

\* the descendants of v
Below(s, v, followed) == Reach(s, RootsOf(s, Kids(s, v, followed)), followed)

\* some path from v leads back to v or to a variable already on the path
PathReturns(s, v, followed) ==
  \E w \in RootsOf(s, { v }) \cup Below(s, v, followed) : w \in Below(s, w, followed)

Count(x, seq) == Cardinality({ k \in 1..Len(seq) : seq[k] = x })

\* C11 as stated: if occurs(v) returns Ok, no path through the child variables
\* of structures, aliases and ranged numbers (a recursion variable's structure
\* left out) leads from v back to v or to a variable already on the path.
C11_OkMeansNoCycle ==
  (last.op = "occurs" /\ ~last.include /\ last.result = Ok)
    => ~PathReturns(subs, last.var, FALSE)

\* C11 amended: if occurs(v) returns Ok, no path through the child variables of
\* structures, the arguments of aliases and the typ of ranged numbers (the
\* variable an alias stands for, the range of a ranged number and a recursion
\* variable's structure left out) leads from v back to v or to a variable
\* already on the path.
C11_OkMeansNoFollowedCycle ==
  (last.op = "occurs" /\ ~last.include /\ last.result = Ok)
    => ~PathReturns(subs, last.var, TRUE)

C11_Witness ==
  /\ last.op = "occurs" /\ ~last.include /\ last.result = Ok
  /\ Cardinality(Below(subs, last.var, TRUE)) >= 3
  /\ PathReturns(subs, last.var, FALSE)

\* C12 as stated: when occurs(v) or occurs_including_recursion_vars(v) returns
\* Err((culprit, path)), culprit appears twice on path.
C12_CulpritTwice ==
  (last.op = "occurs" /\ last.result.tag = "Err")
    => Count(last.result.culprit, last.result.path) = 2

\* C12 amended: when occurs(v) returns Err((culprit, path)), culprit appears
\* once on path; when occurs_including_recursion_vars(v) does, at most once.
C12_CulpritOnce ==
  (last.op = "occurs" /\ last.result.tag = "Err")
    => /\ Count(last.result.culprit, last.result.path) <= 1
       /\ ~last.include => Count(last.result.culprit, last.result.path) = 1

C12_Witness ==
  /\ last.op = "occurs" /\ ~last.include /\ last.result.tag = "Err"
  /\ Len(last.result.path) >= 3
  /\ last.result.culprit # get_root_key_without_compacting(subs, last.var)

\* v is its own only argument
SelfLoop(s, v) ==
  LET c == get_content_without_compacting(s, v)
  IN /\ c.tag = "Structure"
     /\ c.flat.tag = "Apply"
     /\ Len(VarsOf(s, c.flat.args)) = 1
     /\ RootsOf(s, Elements(VarsOf(s, c.flat.args))) = RootsOf(s, { v })

\* C13: for v whose content is Structure(Apply(S, [v])), occurs(v) returns
\* Err((r, [r])) with r the root of v, and the store is as it was.
C13_SelfLoop ==
  [][(last'.op = "occurs" /\ ~last'.include /\ SelfLoop(subs, last'.var))
       => /\ last'.result = Err(get_root_key_without_compacting(subs, last'.var),
                                << get_root_key_without_compacting(subs, last'.var) >>)
          /\ subs' = subs]_vars

C13_Witness ==
  /\ last.op = "occurs" /\ ~last.include /\ SelfLoop(subs, last.var)
  /\ redundant(subs, last.var)

\* =================================================== explicit substitution
\* the indices of a slice, in order
SubsSlice_indices(slice) == [k \in 1..slice.length |-> slice.start + k - 1]

\* st is the store and the set seen; a call gives both back with its answer
RECURSIVE explicit_substitute_help(_, _, _, _)
RECURSIVE subst_in_place(_, _, _, _)
RECURSIVE subst_collect(_, _, _, _, _)
RECURSIVE subst_slices(_, _, _, _, _)

\* for var_index in slice: subs[var_index] = explicit_substitute(.., subs[var_index], ..)
subst_in_place(st, from, to, indices) ==
  IF indices = << >> THEN st
  ELSE Only({ subst_in_place([subs |-> [r.subs EXCEPT
                                          !.variables = SetAt(@, Head(indices), r.var)],
                              seen |-> r.seen],
                             from, to, Tail(indices)) :
              r \in { explicit_substitute_help(st, from, to,
                                               At(st.subs.variables, Head(indices))) } })

\* for var_index in slice: new_variables.push(explicit_substitute(.., subs[var_index], ..))
subst_collect(st, from, to, indices, new_variables) ==
  IF indices = << >> THEN [subs |-> st.subs, seen |-> st.seen, vars |-> new_variables]
  ELSE Only({ subst_collect([subs |-> r.subs, seen |-> r.seen], from, to, Tail(indices),
                            Append(new_variables, r.var)) :
              r \in { explicit_substitute_help(st, from, to,
                                               At(st.subs.variables, Head(indices))) } })

\* for slice_index in tags.variables(): the substituted payload is appended to
\* the variables arena and its slice pushed on new_slices
subst_slices(st, from, to, indices, new_slices) ==
  IF indices = << >> THEN [subs |-> st.subs, seen |-> st.seen, slices |-> new_slices]
  ELSE Only({ subst_slices([subs |-> [c.subs EXCEPT !.variables = @ \o c.vars],
                            seen |-> c.seen],
                           from, to, Tail(indices),
                           Append(new_slices,
                                  SubsSlice_new(Len(c.subs.variables), AsU16(Len(c.vars))))) :
              c \in { subst_collect(st, from, to,
                                    SubsSlice_indices(At(st.subs.variable_slices,
                                                         Head(indices))),
                                    << >>) } })

\* the union's ext_var, then its payloads; the new slices are appended to the
\* variable_slices arena and tags moved to them
subst_union(st, from, to, tags, ext_var) ==
  Only({ Only({ [subs |-> [n.subs EXCEPT !.variable_slices = @ \o n.slices],
                 seen |-> n.seen,
                 tags |-> [tags EXCEPT !.variables_start = Len(n.subs.variable_slices)],
                 ext |-> e.var] :
                n \in { subst_slices([subs |-> e.subs, seen |-> e.seen], from, to,
                                     SubsSlice_indices(UnionTags_variables(tags)),
                                     << >>) } }) :
         e \in { explicit_substitute_help(st, from, to, ext_var) } })

subst_func(st, from, to, in_var, f) ==
  Only({ Only({ Only({ [subs |-> set_content(c.subs, in_var,
                                   Structure(Func(f.args, c.var, r.var))),
                        seen |-> c.seen, var |-> in_var] :
                       c \in { explicit_substitute_help([subs |-> r.subs, seen |-> r.seen],
                                                        from, to, f.closure) } }) :
                r \in { explicit_substitute_help(a, from, to, f.ret) } }) :
         a \in { subst_in_place(st, from, to, SubsSlice_indices(f.args)) } })

\* match subs.get(in_var).content
subst_content(st, from, to, in_var, content) ==
  LET f == content.flat
  IN CASE content.tag = "Structure" /\ f.tag = "Apply" ->
            Only({ [subs |-> set_content(r.subs, in_var, Structure(Apply(f.symbol, f.args))),
                    seen |-> r.seen, var |-> in_var] :
                   r \in { subst_in_place(st, from, to, SubsSlice_indices(f.args)) } })
       [] content.tag = "Structure" /\ f.tag = "Func" -> subst_func(st, from, to, in_var, f)
       [] content.tag = "Structure" /\ f.tag = "TagUnion" ->
            Only({ [subs |-> set_content(u.subs, in_var, Structure(TagUnion(u.tags, u.ext))),
                    seen |-> u.seen, var |-> in_var] :
                   u \in { subst_union(st, from, to, f.tags, f.ext) } })
       [] content.tag = "Structure" /\ f.tag = "FunctionOrTagUnion" ->
            Only({ [subs |-> set_content(e.subs, in_var,
                               Structure(FunctionOrTagUnion(f.tag_name, f.symbol, e.var))),
                    seen |-> e.seen, var |-> in_var] :
                   e \in { explicit_substitute_help(st, from, to, f.ext) } })
       [] content.tag = "Structure" /\ f.tag = "RecursiveTagUnion" ->
            \* rec_var is not substituted
            Only({ [subs |-> set_content(u.subs, in_var,
                               Structure(RecursiveTagUnion(f.rec, u.tags, u.ext))),
                    seen |-> u.seen, var |-> in_var] :
                   u \in { subst_union(st, from, to, f.tags, f.ext) } })
       [] content.tag = "Structure" /\ f.tag = "Record" ->
            Only({ Only({ [subs |-> set_content(r.subs, in_var,
                                      Structure(Record(f.fields, e.var))),
                           seen |-> r.seen, var |-> in_var] :
                          r \in { subst_in_place([subs |-> e.subs, seen |-> e.seen],
                                    from, to,
                                    SubsSlice_indices(RecordFields_variables(f.fields))) } }) :
                   e \in { explicit_substitute_help(st, from, to, f.ext) } })
       [] content.tag = "Alias" ->
            Only({ Only({ [subs |-> set_content(n.subs, in_var,
                                      Alias(content.symbol, content.args, n.var,
                                            content.kind)),
                           seen |-> n.seen, var |-> in_var] :
                          n \in { explicit_substitute_help(a, from, to, content.real) } }) :
                   a \in { subst_in_place(st, from, to,
                             SubsSlice_indices(AliasVariables_all_variables(content.args))) } })
       [] content.tag = "RangedNumber" ->
            Only({ Only({ [subs |-> set_content(t.subs, in_var,
                                      RangedNumber(t.var, content.range)),
                           seen |-> t.seen, var |-> in_var] :
                          t \in { explicit_substitute_help(r, from, to, content.typ) } }) :
                   r \in { subst_in_place(st, from, to, SubsSlice_indices(content.range)) } })
       [] OTHER -> [subs |-> st.subs, seen |-> st.seen, var |-> in_var]

\* in_var is not among the seen: it is from, or its content is gone through
subst_unseen(st, from, to, in_var) ==
  Only({ Only({ IF rf.key = ri.key THEN [subs |-> ri.subs, seen |-> st.seen, var |-> to]
                ELSE Only({ subst_content([subs |-> g.subs, seen |-> st.seen], from, to,
                                          in_var, g.value.content) :
                            g \in { get(ri.subs, in_var) } }) :
                ri \in { get_root_key(rf.subs, in_var) } }) :
         rf \in { get_root_key(st.subs, from) } })

\* the function explicit_substitute(subs, from, to, in_var, seen)
explicit_substitute_help(st, from, to, in_var) ==
  Only({ IF r.key \in st.seen THEN [subs |-> r.subs, seen |-> st.seen, var |-> in_var]
         ELSE subst_unseen([subs |-> r.subs, seen |-> st.seen \cup { r.key }],
                           from, to, in_var) :
         r \in { get_root_key(st.subs, in_var) } })

\* the method Subs::explicit_substitute: the three roots, and an empty set seen
explicit_substitute(s, from, to, in_var) ==
  Only({ Only({ Only({ Only({ [subs |-> r.subs, var |-> r.var] :
                              r \in { explicit_substitute_help(
                                        [subs |-> z.subs, seen |-> { }],
                                        x.key, y.key, z.key) } }) :
                       z \in { get_root_key(y.subs, in_var) } }) :
                y \in { get_root_key(x.subs, to) } }) :
         x \in { get_root_key(s, from) } })

\* ---------------------------------------------- mark_tag_union_recursive
RECURSIVE mark_fill_payload(_, _, _, _, _)
RECURSIVE mark_fill_slices(_, _, _, _, _)

\* for (target_index, var_index) in new_variables.indices().zip(slice)
mark_fill_payload(s, recursive, rec_var, target_indices, var_indices) ==
  IF target_indices = << >> \/ var_indices = << >> THEN s
  ELSE Only({ mark_fill_payload([r.subs EXCEPT
                                   !.variables = SetAt(@, Head(target_indices), r.var)],
                                recursive, rec_var, Tail(target_indices),
                                Tail(var_indices)) :
              r \in { explicit_substitute(s, recursive, rec_var,
                                          At(s.variables, Head(var_indices))) } })

\* a loop that writes the substituted payload over the slice it was read from
mark_fill_slices_in_place(s, recursive, rec_var, variable_slice_indices, slice_indices) ==
  IF variable_slice_indices = << >> \/ slice_indices = << >> THEN s
  ELSE Only({ mark_fill_slices([filled EXCEPT
                                  !.variable_slices =
                                    SetAt(@, Head(variable_slice_indices),
                                          At(s.variable_slices, Head(slice_indices)))],
                               recursive, rec_var, Tail(variable_slice_indices),
                               Tail(slice_indices)) :
              filled \in { mark_fill_payload(s, recursive, rec_var,
                             SubsSlice_indices(At(s.variable_slices, Head(slice_indices))),
                             SubsSlice_indices(At(s.variable_slices,
                                                  Head(slice_indices)))) } })

\* for (variable_slice_index, (_, slice_index)) in
\* new_variable_slices.indices().zip(tags.iter_all())
mark_fill_slices(s, recursive, rec_var, variable_slice_indices, slice_indices) ==
  IF variable_slice_indices = << >> \/ slice_indices = << >> THEN s
  ELSE Only({ mark_fill_slices([filled EXCEPT
                                  !.variable_slices =
                                    SetAt(@, Head(variable_slice_indices),
                                          SubsSlice_new(Len(s.variables),
                                                        At(s.variable_slices,
                                                           Head(slice_indices)).length))],
                               recursive, rec_var, Tail(variable_slice_indices),
                               Tail(slice_indices)) :
              filled \in { mark_fill_payload(
                             reserve_into_subs(s, At(s.variable_slices,
                                                     Head(slice_indices)).length).subs,
                             recursive, rec_var,
                             SubsSlice_indices(SubsSlice_new(Len(s.variables),
                                                 At(s.variable_slices,
                                                    Head(slice_indices)).length)),
                             SubsSlice_indices(At(s.variable_slices,
                                                  Head(slice_indices)))) } })

\* the recursion variable: a fresh variable at the rank of recursive
mark_rec_var(s, recursive) ==
  Only({ Only({ [subs |-> set_content(set_rank(rec_var.subs, rec_var.var,
                                               description.value.rank),
                                      rec_var.var, RecursionVar(recursive, NoName)),
                 var |-> rec_var.var] :
                rec_var \in { fresh_unnamed_flex_var(description.subs) } }) :
         description \in { get(s, recursive) } })

\* a call that gives recursive the union over the payloads it was handed
mark_tag_union_recursive_keeping(s, recursive, tags, ext_var) ==
  Only({ set_content(r.subs, recursive,
                     Structure(RecursiveTagUnion(r.var, tags, ext_var))) :
         r \in { mark_rec_var(s, recursive) } })

mark_tag_union_recursive(s, recursive, tags, ext_var) ==
  Only({ Only({ Only({ Only({ set_content(new_ext_var.subs, recursive,
                                Structure(RecursiveTagUnion(r.var,
                                  UnionTags_from_slices(
                                    SubsSlice_new(tags.tag_names_start, tags.length),
                                    new_variable_slices.slice),
                                  new_ext_var.var))) :
                              new_ext_var \in { explicit_substitute(filled, recursive,
                                                                    r.var, ext_var) } }) :
                       filled \in { mark_fill_slices(new_variable_slices.subs, recursive,
                                      r.var,
                                      SubsSlice_indices(new_variable_slices.slice),
                                      SubsSlice_indices(UnionTags_variables(tags))) } }) :
                new_variable_slices \in { reserve_variable_slices(r.subs, tags.length) } }) :
         r \in { mark_rec_var(s, recursive) } })

\* --------------------------------------------- graphs that are rewritten
\* the contents the second and the third variable start with
SubstContentsOf(b) ==
  { unnamed_flex_var,
    Structure(Apply("LIST_LIST", SubsSlice_new(b.args.start, 1))),
    Structure(Apply("LIST_LIST", b.args)),
    Structure(Func(SubsSlice_new(b.args.start + 1, 1), UserVar(2), UserVar(0))),
    Structure(Record(b.fields, Var("EMPTY_RECORD"))),
    Structure(TagUnion(b.tags, UserVar(2))),
    Alias("MY_LIST", [variables_start |-> b.args.start + 1, all_variables_len |-> 1,
                      type_variables_len |-> 1], UserVar(0), "Structural"),
    RangedNumber(UserVar(1), SubsSlice_new(b.args.start, 1)) }

SubstInnerContentsOf(b) ==
  { unnamed_flex_var,
    Structure(Apply("LIST_LIST", SubsSlice_new(b.args.start, 1))),
    Structure(TagUnion(b.tags, Var("EMPTY_TAG_UNION"))) }

SubstSources ==
  UNION { { set_rank(set_content(set_content(b.subs, UserVar(1), c1), UserVar(2), c2),
                     UserVar(1), Rank_toplevel) :
            c1 \in SubstContentsOf(b), c2 \in SubstInnerContentsOf(b) } :
          b \in { OccursBuild } }

\* calls of explicit_substitute and mark_tag_union_recursive made on one store
MaxSubstCalls == 1

InitSubst ==
  /\ subs \in SubstSources
  /\ target = Subs_new
  /\ snapshots = << >>
  /\ saved = << >>
  /\ last = [op |-> "new", calls |-> 0]

ExplicitSubstitute ==
  \E from \in { UserVar(0), UserVar(3) }, to \in { UserVar(1), UserVar(2) },
     in_var \in OccursVars :
    \E r \in { explicit_substitute(subs, from, to, in_var) } :
      /\ last.calls < MaxSubstCalls
      /\ subs' = r.subs
      /\ last' = [op |-> "explicit_substitute", calls |-> last.calls + 1,
                  from |-> from, to |-> to, in_var |-> in_var, result |-> r.var]
      /\ UNCHANGED << target, snapshots, saved >>

MarkTagUnionRecursive ==
  \E recursive \in { UserVar(0), UserVar(1), UserVar(3) },
     ext_var \in { Var("EMPTY_TAG_UNION"), UserVar(2) } :
    \E tags \in { OccursBuild.tags } :
      /\ last.calls < MaxSubstCalls
      /\ subs' = mark_tag_union_recursive(subs, recursive, tags, ext_var)
      /\ last' = [op |-> "mark_tag_union_recursive", calls |-> last.calls + 1,
                  recursive |-> recursive, tags |-> tags, ext_var |-> ext_var]
      /\ UNCHANGED << target, snapshots, saved >>

NextSubst ==
  \/ ExplicitSubstitute
  \/ MarkTagUnionRecursive

SpecSubst == InitSubst /\ [][NextSubst]_vars

\* -------------------------------------------- properties of the rewriting
SameClass(s, v, w) ==
  get_root_key_without_compacting(s, v) = get_root_key_without_compacting(s, w)

TagNamesOf(s, tags) == SliceOf(s.tag_names, tags.tag_names_start, tags.length)

\* what a payload position that held old holds after the call on T: the
\* recursion variable R where old was equivalent to T; elsewhere old itself,
\* or the root of old where rooted is set
PayloadAfter(s, T, R, old, rooted) ==
  IF SameClass(s, old, T) THEN R
  ELSE IF rooted THEN get_root_key_without_compacting(s, old) ELSE old

\* t is the store that mark_tag_union_recursive(T, tags, _) leaves of s
RecursionFormed(s, t, T, tags, rooted) ==
  LET c == get_content_without_compacting(t, T)
      R == Subs_len(s)
      old == PayloadsOf(s, tags)
  IN /\ c.tag = "Structure" /\ c.flat.tag = "RecursiveTagUnion"
     /\ c.flat.rec = R
     /\ Subs_len(t) = Subs_len(s) + 1
     /\ get_content_without_compacting(t, R) = RecursionVar(T, NoName)
     /\ get_rank(t, R) = get_rank(s, T)
     /\ TagNamesOf(t, c.flat.tags) = TagNamesOf(s, tags)
     /\ LET new == PayloadsOf(t, c.flat.tags)
        IN /\ Len(new) = Len(old)
           /\ \A k \in 1..Len(old) :
                /\ Len(new[k]) = Len(old[k])
                /\ \A j \in 1..Len(old[k]) :
                     new[k][j] = PayloadAfter(s, T, R, old[k][j], rooted)

\* C14 as stated: after mark_tag_union_recursive(T, tags, ext) the content of T
\* is a RecursiveTagUnion(R, tags', ext') where R is a fresh variable whose
\* content is RecursionVar { structure: T, opt_name: None } and whose rank is
\* the rank of T, tags' has the tag names and payload arities of tags, every
\* payload position that held a variable equivalent to T holds R, and every
\* other payload position holds the variable it held.
C14_RecursionFormed ==
  [][last'.op = "mark_tag_union_recursive"
       => RecursionFormed(subs, subs', last'.recursive, last'.tags, FALSE)]_vars

\* C14 amended: as above, but every other payload position holds the root of
\* the variable it held (the variable itself when it is a root).
C14_RecursionFormedUpToRoots ==
  [][last'.op = "mark_tag_union_recursive"
       => RecursionFormed(subs, subs', last'.recursive, last'.tags, TRUE)]_vars

\* a call on a union with one payload that held T and one that did not
C14_Witness ==
  /\ last.op = "mark_tag_union_recursive"
  /\ LET c == get_content_without_compacting(subs, last.recursive)
     IN /\ c.tag = "Structure" /\ c.flat.tag = "RecursiveTagUnion"
        /\ \E k \in 1..c.flat.tags.length :
             LET p == PayloadsOf(subs, c.flat.tags)[k]
             IN /\ \E j \in 1..Len(p) : p[j] = c.flat.rec
                /\ \E j \in 1..Len(p) : p[j] # c.flat.rec

\* the arena indices explicit_substitute writes in place when it goes through
\* the content of w: the arguments of an Apply and of a Func, the fields of a
\* Record, the arguments of an Alias and the range of a RangedNumber
InPlaceIndices(s, w) ==
  LET c == get_content_without_compacting(s, w)
      f == c.flat
  IN Elements(SubsSlice_indices(
       CASE c.tag = "Alias" -> AliasVariables_all_variables(c.args)
         [] c.tag = "RangedNumber" -> c.range
         [] c.tag = "Structure" /\ f.tag = "Apply" -> f.args
         [] c.tag = "Structure" /\ f.tag = "Func" -> f.args
         [] c.tag = "Structure" /\ f.tag = "Record" -> RecordFields_variables(f.fields)
         [] OTHER -> SubsSlice_new(0, 0)))

\* the variables explicit_substitute goes through from the payloads of tags
\* and from ext_var
Substituted(s, tags, ext_var) ==
  Reach(s, RootsOf(s, Elements(Flatten(PayloadsOf(s, tags))) \cup { ext_var }), FALSE)

\* the slices of the payloads of the union T was given all start past the
\* lengths the two arenas had
PayloadsAppended(s, t, T) ==
  LET tags == get_content_without_compacting(t, T).flat.tags
      slices == SliceOf(t.variable_slices, tags.variables_start, tags.length)
  IN /\ tags.variables_start >= Len(s.variable_slices)
     /\ \A k \in 1..Len(slices) : slices[k].start >= Len(s.variables)

\* C15 as stated: mark_tag_union_recursive leaves every entry the variables
\* and variable_slices arenas had before the call as it was, and the rewritten
\* payloads live only in storage appended by the call.
C15_ArenasKept ==
  [][last'.op = "mark_tag_union_recursive"
       => /\ SubSeq(subs'.variables, 1, Len(subs.variables)) = subs.variables
          /\ SubSeq(subs'.variable_slices, 1, Len(subs.variable_slices))
               = subs.variable_slices
          /\ PayloadsAppended(subs, subs', last'.recursive)]_vars

\* C15 amended: mark_tag_union_recursive leaves every entry the variable_slices
\* arena had before the call as it was, and an entry the variables arena had
\* before the call changes only if it lies in the arguments of an Apply, a Func
\* or an Alias, the fields of a Record or the range of a RangedNumber that is
\* reached from a payload of tags or from ext; the rewritten payloads live only
\* in storage appended by the call.
C15_PayloadSlicesKept ==
  [][last'.op = "mark_tag_union_recursive"
       => /\ \A i \in 1..Len(subs.variables) :
               subs'.variables[i] # subs.variables[i]
                 => \E w \in Substituted(subs, last'.tags, last'.ext_var) :
                      (i - 1) \in InPlaceIndices(subs, w)
          /\ SubSeq(subs'.variable_slices, 1, Len(subs.variable_slices))
               = subs.variable_slices
          /\ PayloadsAppended(subs, subs', last'.recursive)]_vars

\* a first call that put the recursion variable in an entry the variables
\* arena had before the call
C15_Witness ==
  /\ last.op = "mark_tag_union_recursive" /\ last.calls = 1
  /\ \E i \in 1..Len(OccursBuild.subs.variables) :
       /\ subs.variables[i] # OccursBuild.subs.variables[i]
       /\ subs.variables[i] = get_content_without_compacting(subs, last.recursive).flat.rec

\* from and to are in two classes and no forward path leads from to to from
SubstApplies(s, from, to) ==
  /\ ~SameClass(s, from, to)
  /\ get_root_key_without_compacting(s, from)
       \notin Reach(s, RootsOf(s, { to }), FALSE)

\* C16: after explicit_substitute(from, to, in_var) the result is to where
\* in_var was equivalent to from and in_var elsewhere, and every occurrence of
\* from below in_var is replaced by to: no variable equivalent to from is
\* reached from the result by forward edges (a recursion variable's structure
\* is not followed).
C16_AllReplaced ==
  [][(last'.op = "explicit_substitute" /\ SubstApplies(subs, last'.from, last'.to))
       => /\ SameClass(subs', last'.result,
                       IF SameClass(subs, last'.in_var, last'.from)
                       THEN last'.to ELSE last'.in_var)
          /\ get_root_key_without_compacting(subs', last'.from)
               \notin Reach(subs', RootsOf(subs', { last'.result }), FALSE)]_vars

\* ============================================================ construction
\* the largest capacity a store is constructed with
MaxCapacity == 110

InitNew ==
  /\ subs = Subs_new
  /\ target = Subs_new
  /\ snapshots = << >>
  /\ saved = << >>
  /\ last = [op |-> "new", capacity |-> 0]

WithCapacity ==
  \E capacity \in 0..MaxCapacity :
    /\ subs' = with_capacity(capacity)
    /\ last' = [op |-> "with_capacity", capacity |-> capacity]
    /\ UNCHANGED << target, snapshots, saved >>

NextNew == WithCapacity

SpecNew == InitNew /\ [][NextNew]_vars

\* the contents the reserved prefix of s is constructed with
ReservedPrefix(s) ==
  LET e == get_content_without_compacting(s, Var("BOOL_ENUM"))
  IN /\ e.tag = "Structure" /\ e.flat.tag = "TagUnion"
     /\ TagNamesOf(s, e.flat.tags) = << TagName_Tag(Str_False), TagName_Tag(Str_True) >>
     /\ PayloadsOf(s, e.flat.tags) = << << >>, << >> >>
     /\ e.flat.ext = Var("EMPTY_TAG_UNION")
     /\ get_content_without_compacting(s, Var("BOOL"))
          = Alias("BOOL_BOOL", AliasVariables_default, Var("BOOL_ENUM"), "Structural")
     /\ get_content_without_compacting(s, Var("EMPTY_RECORD")) = Structure(EmptyRecord)
     /\ get_content_without_compacting(s, Var("EMPTY_TAG_UNION"))
          = Structure(EmptyTagUnion)

\* C17: after Subs::new() or Subs::with_capacity(n), BOOL_ENUM is a tag union
\* with exactly the two payload-free tags False and True and the extension
\* EMPTY_TAG_UNION, BOOL is a structural alias of BOOL_ENUM, EMPTY_RECORD is
\* Structure(EmptyRecord), EMPTY_TAG_UNION is Structure(EmptyTagUnion), and the
\* store holds max(n, NUM_RESERVED_VARS) variables.
C17_ReservedPrefix ==
  (last.op \in { "new", "with_capacity" })
    => /\ ReservedPrefix(subs)
       /\ Subs_len(subs) = Max(last.capacity, NUM_RESERVED_VARS)

\* a store constructed with more variables than the reserved ones
C17_Witness ==
  /\ last.op = "with_capacity"
  /\ last.capacity > NUM_RESERVED_VARS
  /\ Subs_len(subs) = last.capacity
  /\ ReservedPrefix(subs)

\* =================================================================== marks
\* a mark wraps the variable it was made with
ExhaustiveMark_new(var) == [var |-> var]

ExhaustiveMark_known_exhaustive == [var |-> Var("EMPTY_TAG_UNION")]

set_non_exhaustive(mark, s) == set_content(s, mark.var, Error)

RedundantMark_new(var) == [var |-> var]

RedundantMark_known_non_redundant == [var |-> Var("EMPTY_TAG_UNION")]

set_redundant(mark, s) == set_content(s, mark.var, Error)

IllegalCycleMark_new(var) == [opt |-> var]

IllegalCycleMark_empty == [opt |-> OptVariable_NONE]

\* if let Some(var) = self.0.into_variable()
set_illegal(mark, s) ==
  IF OptVariable_is_some(mark.opt) THEN set_content(s, mark.opt, Error) ELSE s

\* the variables a VarStore has handed out before the store is made from it
MaxMarkVars == 3

\* the variables VarStore::fresh handed out: those past the reserved ones
MarkVars(s) == UserVars(s)

InitMarks ==
  /\ \E issued \in 0..MaxMarkVars :
       /\ subs = with_capacity(FIRST_USER_SPACE_VAR + issued)
       /\ last = [op |-> "new_from_varstore", var |-> FIRST_USER_SPACE_VAR + issued]
  /\ target = Subs_new
  /\ snapshots = << >>
  /\ saved = << >>

SetNonExhaustive ==
  \E mark \in { ExhaustiveMark_new(v) : v \in MarkVars(subs) }
                \cup { ExhaustiveMark_known_exhaustive } :
    /\ subs' = set_non_exhaustive(mark, subs)
    /\ last' = [op |-> "set_non_exhaustive", var |-> mark.var]
    /\ UNCHANGED << target, snapshots, saved >>

SetRedundant ==
  \E mark \in { RedundantMark_new(v) : v \in MarkVars(subs) }
                \cup { RedundantMark_known_non_redundant } :
    /\ subs' = set_redundant(mark, subs)
    /\ last' = [op |-> "set_redundant", var |-> mark.var]
    /\ UNCHANGED << target, snapshots, saved >>

SetIllegal ==
  \E mark \in { IllegalCycleMark_new(v) : v \in MarkVars(subs) }
                \cup { IllegalCycleMark_empty } :
    /\ subs' = set_illegal(mark, subs)
    /\ last' = [op |-> "set_illegal", var |-> mark.opt]
    /\ UNCHANGED << target, snapshots, saved >>

\* a store operation between the marks: a variable made with VarStore::fresh
\* is given a content
MarksSetContent ==
  \E v \in MarkVars(subs), content \in { unnamed_flex_var, Structure(EmptyRecord) } :
    /\ subs' = set_content(subs, v, content)
    /\ last' = [op |-> "set_content", var |-> v]
    /\ UNCHANGED << target, snapshots, saved >>

NextMarks ==
  \/ SetNonExhaustive
  \/ SetRedundant
  \/ SetIllegal
  \/ MarksSetContent

SpecMarks == InitMarks /\ [][NextMarks]_vars

\* C18: in every state reached from construction by store operations and by
\* set_non_exhaustive, set_redundant and set_illegal on marks obtained from
\* new(), known_exhaustive(), known_non_redundant() or empty(), the content of
\* every reserved variable is the content it was constructed with.
C18_ReservedKept ==
  \A v \in 0..(NUM_RESERVED_VARS - 1) :
    get_content_without_compacting(subs, v) = get_content_without_compacting(Subs_new, v)

\* ========================================================= slice validity
\* a slice of length many entries from start lies within an arena
SliceWithin(start, length, arena) == start + length <= Len(arena)

NameWithin(s, opt_name) == opt_name = NoName \/ opt_name < Len(s.field_names)

TagsWithin(s, tags) ==
  /\ SliceWithin(tags.tag_names_start, tags.length, s.tag_names)
  /\ SliceWithin(tags.variables_start, tags.length, s.variable_slices)
  /\ \A k \in 1..tags.length :
       LET slice == At(s.variable_slices, tags.variables_start + k - 1)
       IN SliceWithin(slice.start, slice.length, s.variables)

FlatTypeWithin(s, f) ==
  CASE f.tag = "Apply" -> SliceWithin(f.args.start, f.args.length, s.variables)
    [] f.tag = "Func" -> SliceWithin(f.args.start, f.args.length, s.variables)
    [] f.tag = "Record" ->
         /\ SliceWithin(f.fields.field_names_start, f.fields.length, s.field_names)
         /\ SliceWithin(f.fields.variables_start, f.fields.length, s.variables)
         /\ SliceWithin(f.fields.field_types_start, f.fields.length, s.record_fields)
    [] f.tag \in { "TagUnion", "RecursiveTagUnion" } -> TagsWithin(s, f.tags)
    [] f.tag = "FunctionOrTagUnion" -> f.tag_name < Len(s.tag_names)
    [] f.tag = "Erroneous" -> f.problem < Len(s.problems)
    [] OTHER -> TRUE

\* every slice and index in a content of s lies within its arena
ContentWithin(s, c) ==
  CASE c.tag \in { "FlexVar", "RigidVar", "FlexAbleVar", "RigidAbleVar", "RecursionVar" } ->
         NameWithin(s, c.name)
    [] c.tag = "Structure" -> FlatTypeWithin(s, c.flat)
    [] c.tag = "Alias" ->
         SliceWithin(c.args.variables_start, c.args.all_variables_len, s.variables)
    [] c.tag = "RangedNumber" -> SliceWithin(c.range.start, c.range.length, s.variables)
    [] OTHER -> TRUE

SlicesWithin(s) ==
  \A v \in AllVars(s) : ContentWithin(s, get_content_without_compacting(s, v))

\* C19: in every reachable state, the targets of deep_copy_var_to and
\* copy_import_to among them, every slice and index stored in the content of a
\* descriptor lies within the current length of its arena.
C19_SlicesWithin == SlicesWithin(subs) /\ SlicesWithin(target)

\* ===================================================== imported variables
\* the roots reached from the roots S through every variable a content holds
RECURSIVE ReachAll(_, _)
ReachAll(s, S) ==
  LET T == S \cup UNION { RootsOf(s, Elements(Children(s, w))) : w \in S }
  IN IF T = S THEN S ELSE ReachAll(s, T)

\* the roots reached from v whose content is of the variant tag
ReachedOf(s, v, tag) ==
  { w \in ReachAll(s, RootsOf(s, { v })) : get_content_without_compacting(s, w).tag = tag }

\* the copies that translations pairs with a variable of the class of w
CopiesOf(s, translations, w) ==
  { k \in 1..Len(translations) : get_root_key_without_compacting(s, translations[k][1]) = w }

\* every entry of list is listed once
ListedOnce(list) == \A x \in Elements(list) : Count(x, list) = 1

\* the rigid variables of the variant tag reached from v have one pair each,
\* and the copy has the variant, the name and the ability and is listed once
RigidsKept(s, t, import, v, tag, list) ==
  \A w \in ReachedOf(s, v, tag) :
    /\ Cardinality(CopiesOf(s, import.translations, w)) = 1
    /\ \A k \in CopiesOf(s, import.translations, w) :
         LET old == get_content_without_compacting(s, w)
             new == get_content_without_compacting(t, import.translations[k][2])
         IN /\ new.tag = tag
            /\ At(t.field_names, new.name) = At(s.field_names, old.name)
            /\ tag = "RigidAbleVar" => new.ability = old.ability
            /\ Count(import.translations[k][2], list) = 1

\* C20: after copy_import_to(source, target, v, rank), every RigidVar and
\* RigidAbleVar reached from v in the source has a copy in the target of the
\* same variant with the same name (and ability); the copy is listed exactly
\* once in rigid (resp. rigid_able); translations holds exactly one pair
\* (source variable, copy) for it and no pair for a variable that is not rigid;
\* every copied FlexVar and FlexAbleVar is listed exactly once in flex (resp.
\* flex_able).
C20_RigidsPreserved ==
  (last.op = "copy_import_to")
    => /\ RigidsKept(subs, target, last.import, last.var, "RigidVar", last.import.rigid)
       /\ RigidsKept(subs, target, last.import, last.var, "RigidAbleVar",
                     last.import.rigid_able)
       /\ Len(last.import.rigid) = Cardinality(ReachedOf(subs, last.var, "RigidVar"))
       /\ Len(last.import.rigid_able)
            = Cardinality(ReachedOf(subs, last.var, "RigidAbleVar"))
       /\ \A k \in 1..Len(last.import.translations) :
            get_content_without_compacting(subs, last.import.translations[k][1]).tag
              \in { "RigidVar", "RigidAbleVar" }
       /\ ListedOnce(last.import.flex) /\ ListedOnce(last.import.flex_able)
       /\ Len(last.import.flex) = Cardinality(ReachedOf(subs, last.var, "FlexVar"))
       /\ Len(last.import.flex_able)
            = Cardinality(ReachedOf(subs, last.var, "FlexAbleVar"))
       /\ Elements(last.import.flex) \cup Elements(last.import.flex_able)
            \subseteq last.before..(Subs_len(target) - 1)

\* a call that copied a rigid variable and a flex variable
C20_Witness ==
  /\ last.op = "copy_import_to"
  /\ Len(last.import.translations) = 1
  /\ Len(last.import.rigid) + Len(last.import.rigid_able) = 1
  /\ Len(last.import.flex) + Len(last.import.flex_able) >= 1

\* the variables the last call allocated in the target
Allocated == last.before..(Subs_len(target) - 1)

\* C21: in the CopiedImport that copy_import_to returns, no id in registered
\* denotes a flex or rigid variable (able or not) or a variable whose structure
\* is EmptyRecord or EmptyTagUnion, and every other id the call allocated in
\* the target is in registered exactly once.
C21_RegistrationRule ==
  (last.op = "copy_import_to")
    => /\ Elements(last.import.registered) \subseteq Allocated
       /\ \A id \in Allocated :
            Count(id, last.import.registered)
              = IF is_registered(get_content_without_compacting(target, id)) THEN 1 ELSE 0

IsErroneous(c) == c.tag = "Structure" /\ c.flat.tag = "Erroneous"

\* the source classes reached from v whose copy is left an unnamed flex
\* variable: erroneous structures, and flex and flex-able variables without name
ImportedUnnamed(s, v) ==
  { w \in ReachAll(s, RootsOf(s, { v })) :
      LET c == get_content_without_compacting(s, w)
      IN \/ IsErroneous(c)
         \/ c.tag \in { "FlexVar", "FlexAbleVar" } /\ c.name = NoName }

\* C22: copy_import_to copies every source variable whose content is
\* Structure(Erroneous(_)) to a fresh target variable with content
\* FlexVar(None); after the call no variable the call allocated in the target
\* has an Erroneous structure or holds an index into the source's problems.
C22_ErrorsStayLocal ==
  (last.op = "copy_import_to")
    => /\ Cardinality(Allocated) = Cardinality(ReachAll(subs, RootsOf(subs, { last.var })))
       /\ \A id \in Allocated : ~IsErroneous(get_content_without_compacting(target, id))
       /\ Cardinality({ id \in Allocated :
                          get_content_without_compacting(target, id) = FlexVar(NoName) })
            = Cardinality(ImportedUnnamed(subs, last.var))
       /\ IsErroneous(get_content_without_compacting(subs, last.var))
            => get_content_without_compacting(target, last.copy) = FlexVar(NoName)
       /\ target.problems = Subs_new.problems

\* the import of an erroneous structure, and of a union that holds one
C22_Witness ==
  /\ last.op = "copy_import_to"
  /\ \E w \in ReachAll(subs, RootsOf(subs, { last.var })) :
       IsErroneous(get_content_without_compacting(subs, w))
  /\ Cardinality(Allocated) > 1

\* C23: every variable that deep_copy_var_to allocated in the target, whatever
\* its content, has the rank Rank::toplevel() when the call returns.
C23_CopyAtToplevel ==
  (last.op = "deep_copy_var_to")
    => \A id \in Allocated : get_rank(target, id) = Rank_toplevel

\* ====================================================== var_contains_content
\* the state of one call: the stack of variables to visit (the top is the end
\* of the sequence), the recursion variables not to visit again, and the
\* answer once the loop has returned
var_contains_content(var) ==
  [stack |-> << var >>, seen_recursion_vars |-> { }, result |-> "running"]

\* the predicates a call is made with: the content is of the variant named
Predicates == { "FlexVar", "RecursionVar", "Error" }

Satisfies(predicate, content) == content.tag = predicate

\* push_var_slice!: the variables of a slice go on the stack in their order
push_var_slice(s, stack, slice) == stack \o VarsOf(s, slice)

\* what the match on the content leaves on the stack and in the seen set
var_contains_content_match(s, var, content, stack, seen) ==
  LET f == content.flat
  IN CASE content.tag = "RecursionVar" ->
            [stack |-> Append(stack, content.structure), seen |-> seen \cup { var }]
       [] content.tag = "Structure" /\ f.tag = "Apply" ->
            [stack |-> push_var_slice(s, stack, f.args), seen |-> seen]
       [] content.tag = "Structure" /\ f.tag = "Func" ->
            [stack |-> push_var_slice(s, stack, f.args) \o << f.closure, f.ret >>,
             seen |-> seen]
       [] content.tag = "Structure" /\ f.tag = "Record" ->
            [stack |-> Append(push_var_slice(s, stack, RecordFields_variables(f.fields)),
                              f.ext),
             seen |-> seen]
       [] content.tag = "Structure" /\ f.tag = "TagUnion" ->
            [stack |-> Append(stack \o Flatten(PayloadsOf(s, f.tags)), f.ext),
             seen |-> seen]
       [] content.tag = "Structure" /\ f.tag = "FunctionOrTagUnion" ->
            [stack |-> Append(stack, f.ext), seen |-> seen]
       [] content.tag = "Structure" /\ f.tag = "RecursiveTagUnion" ->
            [stack |-> Append(stack \o Flatten(PayloadsOf(s, f.tags)), f.ext),
             seen |-> seen \cup { f.rec }]
       [] content.tag = "Alias" ->
            [stack |-> Append(push_var_slice(s, stack,
                                             AliasVariables_all_variables(content.args)),
                              content.real),
             seen |-> seen]
       [] content.tag = "RangedNumber" ->
            [stack |-> push_var_slice(s, Append(stack, content.typ), content.range),
             seen |-> seen]
       [] OTHER -> [stack |-> stack, seen |-> seen]

\* one turn of the loop of var_contains_content_help: pop a variable, skip it
\* if it is a seen recursion variable, return true if its content satisfies
\* the predicate, else push what it holds; return false on an empty stack
var_contains_content_help(s, predicate, st) ==
  IF st.stack = << >> THEN [st EXCEPT !.result = "false"]
  ELSE LET var == st.stack[Len(st.stack)]
           rest == SubSeq(st.stack, 1, Len(st.stack) - 1)
           content == get_content_without_compacting(s, var)
       IN IF var \in st.seen_recursion_vars THEN [st EXCEPT !.stack = rest]
          ELSE IF Satisfies(predicate, content) THEN [st EXCEPT !.result = "true"]
          ELSE Only({ [st EXCEPT !.stack = m.stack, !.seen_recursion_vars = m.seen] :
                      m \in { var_contains_content_match(s, var, content, rest,
                                                         st.seen_recursion_vars) } })

\* the graphs that are searched: the first variable holds any content of the
\* occurs graphs, the second a leaf, a recursion variable or a list of the first
ContainsInnerContentsOf(b) ==
  { unnamed_flex_var, Error, RecursionVar(UserVar(0), NoName),
    Structure(Apply("LIST_LIST", SubsSlice_new(b.args.start, 1))) }

\* the recursion variable of a recursive tag union is a recursion variable
RecursionClosed(c0, c1) ==
  (c0.tag = "Structure" /\ c0.flat.tag = "RecursiveTagUnion") => c1.tag = "RecursionVar"

\* the occurs graphs with the tags of a list whose rest is the second variable
ContainsBuild ==
  Only({ Only({ [subs |-> t.subs, args |-> b.args, tags |-> b.tags,
                  fields |-> b.fields, list |-> t.tags] :
                t \in { UnionTags_insert_into_subs(b.subs,
                          << << TagName_Tag(<< "C", "o", "n", "s" >>),
                                << UserVar(2), UserVar(1) >> >>,
                             << TagName_Tag(<< "N", "i", "l" >>), << >> >> >>) } }) :
         b \in { OccursBuild } })

ContainsSources ==
  UNION { UNION { { set_content(set_content(set_content(b.subs, UserVar(0), c0),
                                            UserVar(1), c1),
                                UserVar(2), c2) :
                    c1 \in { c \in ContainsInnerContentsOf(b) : RecursionClosed(c0, c) },
                    c2 \in { unnamed_flex_var, Error } } :
                  c0 \in OccursContentsOf(b)
                           \cup { Structure(RecursiveTagUnion(UserVar(1), b.list,
                                                              Var("EMPTY_TAG_UNION"))) } } :
          b \in { ContainsBuild } }

\* the longest stack a walk is followed to
MaxStack == 6

InitContains ==
  /\ subs \in ContainsSources
  /\ target = Subs_new
  /\ snapshots = << >>
  /\ saved = << >>
  /\ last = [op |-> "new"]

\* a call starts when no other call is running
VarContainsContent ==
  \E v \in OccursVars, predicate \in Predicates :
    /\ last.op = "new"
    /\ last' = [op |-> "var_contains_content", var |-> v, predicate |-> predicate,
                walk |-> var_contains_content(v)]
    /\ UNCHANGED << subs, target, snapshots, saved >>

VarContainsContentHelp ==
  /\ last.op = "var_contains_content"
  /\ last.walk.result = "running"
  /\ Len(last.walk.stack) <= MaxStack
  /\ last' = [last EXCEPT !.walk = var_contains_content_help(subs, last.predicate, @)]
  /\ UNCHANGED << subs, target, snapshots, saved >>

NextContains ==
  \/ VarContainsContent
  \/ VarContainsContentHelp

SpecContains == InitContains /\ [][NextContains]_vars

\* the variables of the graph below and at v whose content satisfies the predicate
Matching(s, v, predicate) ==
  { w \in ReachAll(s, RootsOf(s, { v })) :
      Satisfies(predicate, get_content_without_compacting(s, w)) }

\* C24: a call of var_contains_content(v, P) that has returned has returned
\* true if and only if v or a variable reached from v (through the children of
\* structures, the arguments and the aliased type of aliases, the typ and the
\* range of ranged numbers, and recursion variables) has a content satisfying P.
C24_ContainsIffReached ==
  (last.op = "var_contains_content" /\ last.walk.result # "running")
    => ((last.walk.result = "true") <=> (Matching(subs, last.var, last.predicate) # { }))

\* ============================================================ get_var_names
\* format!("{}", index): the decimal digits of a number
RECURSIVE Decimal(_)
Decimal(n) ==
  LET d == << "0", "1", "2", "3", "4", "5", "6", "7", "8", "9" >>[(n % 10) + 1]
  IN IF n < 10 THEN << d >> ELSE Append(Decimal(n \div 10), d)

\* ImMap::insert: the name stands for var from now on
ImMap_insert(map, name, var) ==
  [n \in DOMAIN map \cup { name } |-> IF n = name THEN var ELSE map[n]]

\* the name is tried as it is given, then with 1, 2, .. after it, until no other
\* class holds it; the map that is returned is the map that was passed in
RECURSIVE add_name(_, _, _, _, _, _)
add_name(s, index, given_name_index, var, content_from_name, taken_names) ==
  LET given_name == At(s.field_names, given_name_index)
      indexed_name == IF index = 0 THEN given_name ELSE given_name \o Decimal(index)
  IN IF indexed_name \notin DOMAIN taken_names
     THEN Only({ [subs |-> s1, taken_names |-> taken_names] :
                 s1 \in { IF indexed_name # given_name
                          THEN Only({ set_content([s EXCEPT !.field_names = n.vec], var,
                                                  [content_from_name EXCEPT !.name = n.index]) :
                                      n \in { SubsIndex_push_new(s.field_names, indexed_name) } })
                          ELSE s } })
     ELSE Only({ IF e.result THEN [subs |-> e.subs, taken_names |-> taken_names]
                 ELSE add_name(e.subs, index + 1, given_name_index, var, content_from_name,
                               taken_names) :
                 e \in { equivalent(s, var, taken_names[indexed_name]) } })

\* the variables get_var_names goes on to, in the order of its calls
get_var_names_children(s, content) ==
  LET f == content.flat
  IN CASE content.tag = "Alias" -> VarsOf(s, AliasVariables_all_variables(content.args))
       [] content.tag = "RangedNumber" -> << content.typ >> \o VarsOf(s, content.range)
       [] content.tag = "Structure" /\ f.tag = "Apply" -> VarsOf(s, f.args)
       [] content.tag = "Structure" /\ f.tag = "Func" ->
            << f.ret, f.closure >> \o VarsOf(s, f.args)
       [] content.tag = "Structure" /\ f.tag = "Record" ->
            << f.ext >> \o VarsOf(s, RecordFields_variables(f.fields))
       [] content.tag = "Structure" /\ f.tag = "TagUnion" ->
            << f.ext >> \o Flatten(PayloadsOf(s, f.tags))
       [] content.tag = "Structure" /\ f.tag = "FunctionOrTagUnion" -> << f.ext >>
       [] content.tag = "Structure" /\ f.tag = "RecursiveTagUnion" ->
            << f.ext, f.rec >> \o Flatten(PayloadsOf(s, f.tags))
       [] OTHER -> << >>

RECURSIVE get_var_names(_, _, _)
RECURSIVE get_var_names_fold(_, _)

\* the fold of get_var_names over the variables children
get_var_names_fold(st, children) ==
  IF children = << >> THEN st
  ELSE Only({ get_var_names_fold(r, Tail(children)) :
              r \in { get_var_names(st.subs, Head(children), st.taken_names) } })

get_var_names(s, var, taken_names) ==
  Only({ IF g.value.mark = Mark_GET_VAR_NAMES
         THEN [subs |-> g.subs, taken_names |-> taken_names]
         ELSE Only({ LET content == g.value.content
                     IN CASE content.tag \in { "FlexVar", "FlexAbleVar" }
                               /\ content.name # NoName ->
                               add_name(s1, 0, content.name, var, FlexVar(NoName),
                                        taken_names)
                          [] content.tag = "RecursionVar" /\ content.name # NoName ->
                               add_name(s1, 0, content.name, var,
                                        RecursionVar(content.structure, NoName), taken_names)
                          [] content.tag \in { "RigidVar", "RigidAbleVar" } ->
                               add_name(s1, 0, content.name, var, RigidVar(NoName),
                                        taken_names)
                          [] OTHER ->
                               get_var_names_fold([subs |-> s1, taken_names |-> taken_names],
                                                  get_var_names_children(s1, content)) :
                     s1 \in { set_mark(g.subs, var, Mark_GET_VAR_NAMES) } }) :
         g \in { get(s, var) } })

\* no name is taken: ImMap::default()
ImMap_default == [n \in { } |-> 0]

\* ========================================================= var_to_error_type
ErrorType_Infinite == [tag |-> "Infinite"]

ErrorType_Error == [tag |-> "Error"]

ErrorType_FlexVar(name) == [tag |-> "FlexVar", name |-> name]

ErrorType_RigidVar(name) == [tag |-> "RigidVar", name |-> name]

ErrorType_FlexAbleVar(name, ability) ==
  [tag |-> "FlexAbleVar", name |-> name, ability |-> ability]

ErrorType_RigidAbleVar(name, ability) ==
  [tag |-> "RigidAbleVar", name |-> name, ability |-> ability]

ErrorType_Type(symbol, args) == [tag |-> "Type", symbol |-> symbol, args |-> args]

ErrorType_Function(args, closure, ret) ==
  [tag |-> "Function", args |-> args, closure |-> closure, ret |-> ret]

ErrorType_Record(fields, ext) == [tag |-> "Record", fields |-> fields, ext |-> ext]

ErrorType_TagUnion(tags, ext) == [tag |-> "TagUnion", tags |-> tags, ext |-> ext]

ErrorType_RecursiveTagUnion(rec, tags, ext) ==
  [tag |-> "RecursiveTagUnion", rec |-> rec, tags |-> tags, ext |-> ext]

ErrorType_Alias(symbol, args, real, kind) ==
  [tag |-> "Alias", symbol |-> symbol, args |-> args, real |-> real, kind |-> kind]

TypeExt_Closed == [tag |-> "Closed"]

TypeExt_FlexOpen(name) == [tag |-> "FlexOpen", name |-> name]

TypeExt_RigidOpen(name) == [tag |-> "RigidOpen", name |-> name]

\* the aliased type of a structural alias, of any depth
RECURSIVE unwrap_structural_alias(_)
unwrap_structural_alias(err) ==
  IF err.tag = "Alias" /\ err.kind = "Structural" THEN unwrap_structural_alias(err.real)
  ELSE err

SendMap_default == [k \in { } |-> 0]

\* the entries of the first map and those of the second under other keys
SendMap_union(first, second) ==
  [k \in DOMAIN first \cup DOMAIN second |-> IF k \in DOMAIN first THEN first[k] ELSE second[k]]

\* the state of one projection; path holds the classes that are being
\* projected, innermost last, and calls what each call of var_to_err_type met
ErrorTypeState(taken) ==
  [taken |-> taken, letters_used |-> 0, problems |-> << >>,
   recursive_tag_unions_seen |-> << >>, panicked |-> FALSE, path |-> << >>, calls |-> << >>]

\* the name made of the letter of index letters_used, repeated once per 26
RECURSIVE GeneratedName(_)
GeneratedName(remaining) ==
  LET letter == << "a", "b", "c", "d", "e", "f", "g", "h", "i", "j", "k", "l", "m", "n",
                   "o", "p", "q", "r", "s", "t", "u", "v", "w", "x", "y", "z"
                >>[(remaining % 26) + 1]
  IN IF remaining < 26 THEN << letter >> ELSE << letter >> \o GeneratedName(remaining - 26)

\* the first generated name from letters_used on that is not taken
RECURSIVE name_type_var(_, _)
name_type_var(letters_used, taken) ==
  IF GeneratedName(letters_used) \in taken THEN name_type_var(letters_used + 1, taken)
  ELSE [name |-> GeneratedName(letters_used), new_index |-> letters_used + 1]

get_fresh_var_name(state) ==
  Only({ [state |-> [state EXCEPT !.letters_used = n.new_index,
                                  !.taken = @ \cup { n.name }],
          name |-> n.name] :
         n \in { name_type_var(state.letters_used, state.taken) } })

\* the name of a variable: the one it has, or a fresh one that is pushed on
\* field_names and written back as the content FlexVar(Some(name_index))
name_or_fresh(s, state, var, opt_name) ==
  IF opt_name # NoName
  THEN [subs |-> s, state |-> state, name |-> At(s.field_names, opt_name)]
  ELSE Only({ Only({ [subs |-> set_content([s EXCEPT !.field_names = n.vec], var,
                                           FlexVar(n.index)),
                      state |-> f.state, name |-> f.name] :
                     n \in { SubsIndex_push_new(s.field_names, f.name) } }) :
              f \in { get_fresh_var_name(state) } })

\* a panic leaves the store and the state as they are at that point
Panic(s, state) ==
  [subs |-> s, state |-> [state EXCEPT !.panicked = TRUE], err |-> [tag |-> "panic"]]

RECURSIVE var_to_err_type(_, _, _)
RECURSIVE vars_to_err_types(_, _, _)
RECURSIVE content_to_err_type(_, _, _, _)
RECURSIVE flat_type_to_err_type(_, _, _)
RECURSIVE payloads_to_err_types(_, _, _)

\* the projections of the variables children, in their order
vars_to_err_types(s, state, children) ==
  IF children = << >> THEN [subs |-> s, state |-> state, errs |-> << >>]
  ELSE Only({ Only({ [subs |-> rest.subs, state |-> rest.state,
                      errs |-> << r.err >> \o rest.errs] :
                     rest \in { vars_to_err_types(r.subs, r.state, Tail(children)) } }) :
              r \in { var_to_err_type(s, state, Head(children)) } })

\* the projections of the payloads of the tags, tag by tag
payloads_to_err_types(s, state, payloads) ==
  IF payloads = << >> THEN [subs |-> s, state |-> state, errs |-> << >>]
  ELSE Only({ Only({ [subs |-> rest.subs, state |-> rest.state,
                      errs |-> << r.errs >> \o rest.errs] :
                     rest \in { payloads_to_err_types(r.subs, r.state, Tail(payloads)) } }) :
              r \in { vars_to_err_types(s, state, Head(payloads)) } })

\* err_tags.insert(tag, err_vars) for each tag in its order
RECURSIVE err_tags_of(_, _)
err_tags_of(labels, errs) ==
  IF labels = << >> THEN SendMap_default
  ELSE ImMap_insert(err_tags_of(SubSeq(labels, 1, Len(labels) - 1),
                                SubSeq(errs, 1, Len(errs) - 1)),
                    labels[Len(labels)], errs[Len(errs)])

\* err_fields.insert(label, err_record_field) for each field in its order
RECURSIVE err_fields_of(_, _, _)
err_fields_of(labels, kinds, errs) ==
  IF labels = << >> THEN SendMap_default
  ELSE ImMap_insert(err_fields_of(SubSeq(labels, 1, Len(labels) - 1),
                                  SubSeq(kinds, 1, Len(kinds) - 1),
                                  SubSeq(errs, 1, Len(errs) - 1)),
                    labels[Len(labels)],
                    [kind |-> kinds[Len(kinds)], type |-> errs[Len(errs)]])

\* the match on the projection of a record's extension
record_with_ext(s, state, err_fields, ext) ==
  LET e == unwrap_structural_alias(ext)
  IN CASE e.tag = "Record" ->
            [subs |-> s, state |-> state,
             err |-> ErrorType_Record(SendMap_union(e.fields, err_fields), e.ext)]
       [] e.tag = "FlexVar" ->
            [subs |-> s, state |-> state,
             err |-> ErrorType_Record(err_fields, TypeExt_FlexOpen(e.name))]
       [] e.tag = "RigidVar" ->
            [subs |-> s, state |-> state,
             err |-> ErrorType_Record(err_fields, TypeExt_RigidOpen(e.name))]
       [] OTHER -> Panic(s, state)

\* the match on the projection of a tag union's extension
tag_union_with_ext(s, state, err_tags, ext) ==
  LET e == unwrap_structural_alias(ext)
  IN CASE e.tag \in { "TagUnion", "RecursiveTagUnion" } ->
            [subs |-> s, state |-> state,
             err |-> ErrorType_TagUnion(SendMap_union(e.tags, err_tags), e.ext)]
       [] e.tag = "FlexVar" ->
            [subs |-> s, state |-> state,
             err |-> ErrorType_TagUnion(err_tags, TypeExt_FlexOpen(e.name))]
       [] e.tag = "RigidVar" ->
            [subs |-> s, state |-> state,
             err |-> ErrorType_TagUnion(err_tags, TypeExt_RigidOpen(e.name))]
       [] OTHER -> Panic(s, state)

\* the match on the projection of a recursive tag union's extension
recursive_tag_union_with_ext(s, state, rec_error_type, err_tags, ext) ==
  LET e == unwrap_structural_alias(ext)
  IN CASE e.tag \in { "TagUnion", "RecursiveTagUnion" } ->
            [subs |-> s, state |-> state,
             err |-> ErrorType_RecursiveTagUnion(rec_error_type,
                                                 SendMap_union(e.tags, err_tags), e.ext)]
       [] e.tag = "FlexVar" ->
            [subs |-> s, state |-> state,
             err |-> ErrorType_RecursiveTagUnion(rec_error_type, err_tags,
                                                 TypeExt_FlexOpen(e.name))]
       [] e.tag = "RigidVar" ->
            [subs |-> s, state |-> state,
             err |-> ErrorType_RecursiveTagUnion(rec_error_type, err_tags,
                                                 TypeExt_RigidOpen(e.name))]
       [] OTHER -> Panic(s, state)

flat_type_to_err_type(s, state, flat_type) ==
  CASE flat_type.tag = "Apply" ->
         Only({ [subs |-> a.subs, state |-> a.state,
                 err |-> ErrorType_Type(flat_type.symbol, a.errs)] :
                a \in { vars_to_err_types(s, state, VarsOf(s, flat_type.args)) } })
    [] flat_type.tag = "Func" ->
         Only({ Only({ [subs |-> r.subs, state |-> r.state,
                        err |-> ErrorType_Function(a.errs, r.errs[2], r.errs[1])] :
                       r \in { vars_to_err_types(a.subs, a.state,
                                                 << flat_type.ret, flat_type.closure >>) } }) :
                a \in { vars_to_err_types(s, state, VarsOf(s, flat_type.args)) } })
    [] flat_type.tag = "EmptyRecord" ->
         [subs |-> s, state |-> state,
          err |-> ErrorType_Record(SendMap_default, TypeExt_Closed)]
    [] flat_type.tag = "EmptyTagUnion" ->
         [subs |-> s, state |-> state,
          err |-> ErrorType_TagUnion(SendMap_default, TypeExt_Closed)]
    [] flat_type.tag = "Record" ->
         LET fields == flat_type.fields
             labels == SliceOf(s.field_names, fields.field_names_start, fields.length)
             kinds == SliceOf(s.record_fields, fields.field_types_start, fields.length)
         IN Only({ Only({ IF e.state.panicked THEN e
                          ELSE record_with_ext(e.subs, e.state,
                                               err_fields_of(labels, kinds, a.errs), e.err) :
                          e \in { var_to_err_type(a.subs, a.state, flat_type.ext) } }) :
                   a \in { vars_to_err_types(s, state,
                                             VarsOf(s, RecordFields_variables(fields))) } })
    [] flat_type.tag = "TagUnion" ->
         LET labels == TagLabels(s, flat_type.tags)
         IN Only({ Only({ IF e.state.panicked THEN e
                          ELSE tag_union_with_ext(e.subs, e.state,
                                                  err_tags_of(labels, p.errs), e.err) :
                          e \in { var_to_err_type(p.subs, p.state, flat_type.ext) } }) :
                   p \in { payloads_to_err_types(s, state, PayloadsOf(s, flat_type.tags)) } })
    [] flat_type.tag = "FunctionOrTagUnion" ->
         LET label == TagLabel(At(s.tag_names, flat_type.tag_name))
         IN Only({ IF e.state.panicked THEN e
                   ELSE tag_union_with_ext(e.subs, e.state,
                                           ImMap_insert(SendMap_default, label, << >>),
                                           e.err) :
                   e \in { var_to_err_type(s, state, flat_type.ext) } })
    [] flat_type.tag = "RecursiveTagUnion" ->
         LET labels == TagLabels(s, flat_type.tags)
             seen == [state EXCEPT !.recursive_tag_unions_seen = Append(@, flat_type.rec)]
         IN Only({ Only({ Only({ IF e.state.panicked THEN e
                                 ELSE recursive_tag_union_with_ext(
                                        e.subs, e.state, r.err,
                                        err_tags_of(labels, p.errs), e.err) :
                                 e \in { var_to_err_type(r.subs, r.state, flat_type.ext) } }) :
                          r \in { var_to_err_type(p.subs, p.state, flat_type.rec) } }) :
                   p \in { payloads_to_err_types(s, seen, PayloadsOf(s, flat_type.tags)) } })
    [] OTHER ->
         [subs |-> s,
          state |-> [state EXCEPT !.problems = Append(@, At(s.problems, flat_type.problem))],
          err |-> ErrorType_Error]

content_to_err_type(s, state, var, content) ==
  CASE content.tag = "Structure" -> flat_type_to_err_type(s, state, content.flat)
    [] content.tag = "FlexVar" ->
         Only({ [subs |-> n.subs, state |-> n.state, err |-> ErrorType_FlexVar(n.name)] :
                n \in { name_or_fresh(s, state, var, content.name) } })
    [] content.tag = "RigidVar" ->
         [subs |-> s, state |-> state,
          err |-> ErrorType_RigidVar(At(s.field_names, content.name))]
    [] content.tag = "FlexAbleVar" ->
         Only({ [subs |-> n.subs, state |-> n.state,
                 err |-> ErrorType_FlexAbleVar(n.name, content.ability)] :
                n \in { name_or_fresh(s, state, var, content.name) } })
    [] content.tag = "RigidAbleVar" ->
         [subs |-> s, state |-> state,
          err |-> ErrorType_RigidAbleVar(At(s.field_names, content.name), content.ability)]
    [] content.tag = "RecursionVar" ->
         Only({ IF \E k \in 1..Len(n.state.recursive_tag_unions_seen) :
                     n.state.recursive_tag_unions_seen[k] = var
                THEN [subs |-> n.subs, state |-> n.state, err |-> ErrorType_FlexVar(n.name)]
                ELSE var_to_err_type(n.subs, n.state, content.structure) :
                n \in { name_or_fresh(s, state, var, content.name) } })
    [] content.tag = "Alias" ->
         Only({ Only({ [subs |-> a.subs, state |-> a.state,
                        err |-> ErrorType_Alias(content.symbol, a.errs, r.err, content.kind)] :
                       a \in { vars_to_err_types(
                                 r.subs, r.state,
                                 VarsOf(r.subs, AliasVariables_all_variables(content.args))) } }) :
                r \in { var_to_err_type(s, state, content.real) } })
    [] content.tag = "RangedNumber" -> var_to_err_type(s, state, content.typ)
    [] OTHER -> [subs |-> s, state |-> state, err |-> ErrorType_Error]

\* a projection that leaves Mark::OCCURS on the variables it has projected
var_to_err_type_leaving_marks(s, state, var) ==
  Only({ LET root == get_root_key_without_compacting(s, var)
             met == [var |-> root, above |-> Elements(state.path),
                     infinite |-> g.value.mark = Mark_OCCURS]
         IN IF g.value.mark = Mark_OCCURS
            THEN [subs |-> g.subs, state |-> [state EXCEPT !.calls = Append(@, met)],
                  err |-> ErrorType_Infinite]
            ELSE Only({ [subs |-> r.subs,
                         state |-> [r.state EXCEPT !.path = SubSeq(@, 1, Len(@) - 1)],
                         err |-> r.err] :
                        r \in { content_to_err_type(
                                  set_mark(g.subs, var, Mark_OCCURS),
                                  [state EXCEPT !.calls = Append(@, met),
                                                !.path = Append(@, root)],
                                  var, g.value.content) } }) :
         g \in { get(s, var) } })

\* a variable that carries Mark::OCCURS is Infinite; any other carries the mark
\* while its content is projected and gets its own mark back afterwards
var_to_err_type(s, state, var) ==
  IF state.panicked THEN [subs |-> s, state |-> state, err |-> [tag |-> "panic"]]
  ELSE
  Only({ LET root == get_root_key_without_compacting(s, var)
             met == [var |-> root, above |-> Elements(state.path),
                     infinite |-> g.value.mark = Mark_OCCURS]
         IN IF g.value.mark = Mark_OCCURS
            THEN [subs |-> g.subs, state |-> [state EXCEPT !.calls = Append(@, met)],
                  err |-> ErrorType_Infinite]
            ELSE Only({ IF r.state.panicked THEN r
                        ELSE [subs |-> set_mark(r.subs, var, g.value.mark),
                              state |-> [r.state EXCEPT
                                           !.path = SubSeq(@, 1, Len(@) - 1)],
                              err |-> r.err] :
                        r \in { content_to_err_type(
                                  set_mark(g.subs, var, Mark_OCCURS),
                                  [state EXCEPT !.calls = Append(@, met),
                                                !.path = Append(@, root)],
                                  var, g.value.content) } }) :
         g \in { get(s, var) } })

\* the names of the map that get_var_names returns are the names taken
var_to_error_type(s, var) ==
  Only({ Only({ [subs |-> r.subs, err |-> r.err, problems |-> r.state.problems,
                 panicked |-> r.state.panicked, calls |-> r.state.calls] :
                r \in { var_to_err_type(names.subs, ErrorTypeState(DOMAIN names.taken_names),
                                        var) } }) :
         names \in { get_var_names(s, var, ImMap_default) } })

\* the graphs that are named: the occurs graphs with the names a and b
NamesBuild ==
  Only({ Only({ [subs |-> [b.subs EXCEPT !.field_names = n2.vec], args |-> b.args,
                 tags |-> b.tags, fields |-> b.fields, a |-> n1.index, b |-> n2.index] :
                n2 \in { SubsIndex_push_new(n1.vec, << "b" >>) } }) :
         n1 \in { SubsIndex_push_new(b.subs.field_names, << "a" >>) : b \in { OccursBuild } },
         b \in { OccursBuild } })

\* the contents of the second and the third variable
NamedContentsOf(b) ==
  { unnamed_flex_var, FlexVar(b.a), RigidVar(b.a), FlexAbleVar(NoName, "EQ"),
    RecursionVar(UserVar(0), b.a), RecursionVar(UserVar(0), NoName) }

NamesSources ==
  UNION { { set_content(set_content(set_content(b.subs, UserVar(0), c0), UserVar(1), c1),
                        UserVar(2), c2) :
            c0 \in OccursContentsOf(b), c1 \in NamedContentsOf(b), c2 \in NamedContentsOf(b) } :
          b \in { NamesBuild } }

\* calls made on one store
MaxNameCalls == 2

InitNames ==
  /\ subs \in NamesSources
  /\ target = Subs_new
  /\ snapshots = << >>
  /\ saved = << >>
  /\ last = [op |-> "new", calls |-> 0]

\* a panic ends the thread: no call follows it
Panicked == last.op = "var_to_error_type" /\ last.result.panicked

\* saved keeps the store as it was before the call
GetVarNames ==
  \E var \in OccursVars :
    \E r \in { get_var_names(subs, var, ImMap_default) } :
      /\ ~Panicked
      /\ last.calls < MaxNameCalls
      /\ subs' = r.subs
      /\ saved' = << subs >>
      /\ last' = [op |-> "get_var_names", calls |-> last.calls + 1, var |-> var,
                  names |-> r.taken_names]
      /\ UNCHANGED << target, snapshots >>

VarToErrorType ==
  \E var \in OccursVars :
    \E r \in { var_to_error_type(subs, var) } :
      /\ ~Panicked
      /\ last.calls < MaxNameCalls
      /\ subs' = r.subs
      /\ saved' = << subs >>
      /\ last' = [op |-> "var_to_error_type", calls |-> last.calls + 1, var |-> var,
                  result |-> r, prev |-> last]
      /\ UNCHANGED << target, snapshots >>

NextNames ==
  \/ GetVarNames
  \/ VarToErrorType

SpecNames == InitNames /\ [][NextNames]_vars

\* the named flex, rigid and recursion variables of the graph at and below v
NamedBelow(s, v) ==
  { w \in ReachAll(s, RootsOf(s, { v })) :
      LET c == get_content_without_compacting(s, w)
      IN c.tag \in { "FlexVar", "FlexAbleVar", "RigidVar", "RigidAbleVar", "RecursionVar" }
           /\ c.name # NoName }

NameOf(s, w) == At(s.field_names, get_content_without_compacting(s, w).name)

\* C26: after the first pass of get_var_names over the graph rooted at v, any
\* two named flex, rigid or recursion variables reachable from v that are not
\* equivalent and had the same name carry different names, and the map that
\* is returned maps every name in use to a variable of the class that carries it.
C26_NamesApart ==
  (last.op = "get_var_names" /\ last.calls = 1)
    => /\ \A w1, w2 \in NamedBelow(saved[1], last.var) :
            (w1 # w2 /\ NameOf(saved[1], w1) = NameOf(saved[1], w2))
              => NameOf(subs, w1) # NameOf(subs, w2)
       /\ \A w \in NamedBelow(saved[1], last.var) :
            /\ NameOf(subs, w) \in DOMAIN last.names
            /\ SameClass(subs, last.names[NameOf(subs, w)], w)

\* C27: two calls of var_to_error_type(v) in a row, the first of which
\* returned, return the same ErrorType.
C27_ProjectionsAgree ==
  (/\ last.op = "var_to_error_type"
   /\ last.prev.op = "var_to_error_type"
   /\ last.prev.var = last.var
   /\ ~last.prev.result.panicked)
    => last.result.err = last.prev.result.err

\* the calls of var_to_err_type that the last projection made
Projected == last.result.calls

\* C28: in a projection, a call of var_to_err_type on a variable returns
\* Infinite without descending exactly when the class of the variable is being
\* projected by a call above it; a variable that is reached again on another
\* branch, and is not below itself, is projected as on the first time.
C28_InfiniteIffAbove ==
  (last.op = "var_to_error_type")
    => \A k \in 1..Len(Projected) : Projected[k].infinite <=> (Projected[k].var \in Projected[k].above)

\* a projection that met a variable below itself, and another variable twice
\* on different branches
C28_Witness ==
  /\ last.op = "var_to_error_type"
  /\ ~last.result.panicked
  /\ \E k \in 1..Len(Projected) : Projected[k].infinite
  /\ \E j, k \in 1..Len(Projected) :
       /\ j < k
       /\ Projected[j].var = Projected[k].var
       /\ ~Projected[j].infinite
       /\ ~Projected[k].infinite

\* =================================================================== restore
\* the variables restore_help pushes for a content, in the order of its pushes
restore_pushes(s, content) ==
  LET f == content.flat
  IN CASE content.tag = "RecursionVar" -> << content.structure >>
       [] content.tag = "Structure" /\ f.tag = "Apply" -> VarsOf(s, f.args)
       [] content.tag = "Structure" /\ f.tag = "Func" ->
            VarsOf(s, f.args) \o << f.ret, f.closure >>
       [] content.tag = "Structure" /\ f.tag = "Record" ->
            VarsOf(s, RecordFields_variables(f.fields)) \o << f.ext >>
       [] content.tag = "Structure" /\ f.tag = "TagUnion" ->
            Flatten(PayloadsOf(s, f.tags)) \o << f.ext >>
       [] content.tag = "Structure" /\ f.tag = "FunctionOrTagUnion" -> << f.ext >>
       [] content.tag = "Structure" /\ f.tag = "RecursiveTagUnion" ->
            Flatten(PayloadsOf(s, f.tags)) \o << f.ext, f.rec >>
       [] content.tag = "Alias" ->
            VarsOf(s, AliasVariables_all_variables(content.args)) \o << content.real >>
       [] content.tag = "RangedNumber" -> << content.typ >> \o VarsOf(s, content.range)
       [] OTHER -> << >>

\* a loop that takes the copy and the mark off the descriptor and keeps its rank
RECURSIVE restore_help_keeping_rank(_, _)
restore_help_keeping_rank(s, stack) ==
  IF stack = << >> THEN s
  ELSE LET var == stack[Len(stack)]
           rest == SubSeq(stack, 1, Len(stack) - 1)
           desc == get_ref(s, var)
       IN IF OptVariable_is_some(desc.copy)
          THEN Only({ restore_help_keeping_rank(s1, rest \o restore_pushes(s1, desc.content)) :
                      s1 \in { get_ref_mut_write(s, var,
                                 [desc EXCEPT !.mark = Mark_NONE,
                                              !.copy = OptVariable_NONE]) } })
          ELSE restore_help_keeping_rank(s, rest)

\* the loop of restore_help: the top of the stack is its last element; a
\* descriptor that holds a copy is reset and the variables of its content are pushed
RECURSIVE restore_help(_, _)
restore_help(s, stack) ==
  IF stack = << >> THEN s
  ELSE LET var == stack[Len(stack)]
           rest == SubSeq(stack, 1, Len(stack) - 1)
           desc == get_ref(s, var)
       IN IF OptVariable_is_some(desc.copy)
          THEN Only({ restore_help(s1, rest \o restore_pushes(s1, desc.content)) :
                      s1 \in { get_ref_mut_write(s, var,
                                 [desc EXCEPT !.rank = Rank_NONE, !.mark = Mark_NONE,
                                              !.copy = OptVariable_NONE]) } })
          ELSE restore_help(s, rest)

restore(s, var) == restore_help(s, << var >>)

\* the graphs that are restored: the third variable may be a list of the first
\* reserved integer type
RestoreInnerContentsOf(b) ==
  { unnamed_flex_var, RecursionVar(UserVar(0), NoName),
    Structure(Apply("LIST_LIST", SubsSlice_new(b.args.start + 2, 1))) }

RestoreLeafContents ==
  { unnamed_flex_var, Structure(Apply("LIST_LIST", SubsSlice_new(0, 1))) }

\* the variables that may hold a copy
HeldVars == << UserVar(0), UserVar(1), UserVar(2), At(Subs_new.variables, 0) >>

\* every variable of HeldVars gets a rank and a mark, and those of held a copy
RECURSIVE Held(_, _, _)
Held(s, held, k) ==
  IF k > Len(HeldVars) THEN s
  ELSE Held(set(s, HeldVars[k],
                Descriptor(get_content_without_compacting(s, HeldVars[k]), Rank_toplevel,
                           Mark_GET_VAR_NAMES,
                           IF k \in held THEN HeldVars[k] ELSE OptVariable_NONE)),
            held, k + 1)

RestoreSources ==
  UNION { { Held(set_content(set_content(set_content(b.subs, UserVar(0), c0), UserVar(1), c1),
                             UserVar(2), c2), held, 1) :
            c0 \in OccursContentsOf(b), c1 \in RestoreInnerContentsOf(b),
            c2 \in RestoreLeafContents, held \in SUBSET (1..Len(HeldVars)) } :
          b \in { OccursBuild } }

\* calls of restore made on one store
MaxRestores == 2

InitRestore ==
  /\ subs \in RestoreSources
  /\ target = Subs_new
  /\ snapshots = << >>
  /\ saved = << >>
  /\ last = [op |-> "new", calls |-> 0]

\* saved keeps the store as it was before the call
Restore ==
  \E var \in OccursVars :
    /\ last.calls < MaxRestores
    /\ subs' = restore(subs, var)
    /\ saved' = << subs >>
    /\ last' = [op |-> "restore", calls |-> last.calls + 1, var |-> var]
    /\ UNCHANGED << target, snapshots >>

NextRestore ==
  \/ Restore

SpecRestore == InitRestore /\ [][NextRestore]_vars

HoldsCopy(s, w) == OptVariable_is_some(get_ref(s, w).copy)

\* the roots reached from the roots S through variables that hold a copy
RECURSIVE ReachHeld(_, _)
ReachHeld(s, S) ==
  LET T == S \cup { w \in UNION { RootsOf(s, Elements(Children(s, x))) : x \in S } :
                      HoldsCopy(s, w) }
  IN IF T = S THEN S ELSE ReachHeld(s, T)

\* the classes restore(v) is to reset: v and what is reached from v through
\* variables that hold a copy
Restored(s, v) == ReachHeld(s, { w \in RootsOf(s, { v }) : HoldsCopy(s, w) })

\* C29: restore(v) sets copy to None, rank to Rank::NONE and mark to Mark::NONE
\* on v and on every variable reached from v through variables that held a
\* copy, and leaves every other descriptor, every content, the redirections and
\* the arenas as they were; if v held no copy, nothing is changed.
C29_RestoreResets ==
  (last.op = "restore")
    => /\ Len(subs.utable) = Len(saved[1].utable)
       /\ \A w \in AllVars(subs) :
            /\ At(subs.utable, w).parent = At(saved[1].utable, w).parent
            /\ At(subs.utable, w).rank = At(saved[1].utable, w).rank
            /\ At(subs.utable, w).value =
                 IF w \in Restored(saved[1], last.var)
                 THEN [At(saved[1].utable, w).value EXCEPT
                         !.rank = Rank_NONE, !.mark = Mark_NONE, !.copy = OptVariable_NONE]
                 ELSE At(saved[1].utable, w).value
       /\ Arenas(subs) = Arenas(saved[1])
       /\ (~HoldsCopy(saved[1], last.var) => subs = saved[1])

\* a call that reset a class below v and stopped at a class that held no copy
\* although a class below it held one
C29_Witness ==
  /\ last.op = "restore"
  /\ Cardinality(Restored(saved[1], last.var)) > 1
  /\ \E w \in ReachAll(saved[1], RootsOf(saved[1], { last.var })) :
       /\ w \notin Restored(saved[1], last.var)
       /\ HoldsCopy(saved[1], w)
       /\ HoldsCopy(subs, w)

\* ============================================ recursion variables in occurs
\* the variables a walk that took RecursionVar.structure as part of the type
\* would go on to from w
KidsWithStructure(s, w) ==
  LET c == get_content_without_compacting(s, w)
  IN IF c.tag = "RecursionVar" THEN { c.structure } ELSE Kids(s, w, TRUE)

RECURSIVE ReachWithStructure(_, _)
ReachWithStructure(s, S) ==
  LET T == S \cup UNION { RootsOf(s, KidsWithStructure(s, w)) : w \in S }
  IN IF T = S THEN S ELSE ReachWithStructure(s, T)

BelowWithStructure(s, v) == ReachWithStructure(s, RootsOf(s, KidsWithStructure(s, v)))

\* some path from v that may pass through RecursionVar.structure leads back to
\* a variable already on the path
StructurePathReturns(s, v) ==
  \E w \in RootsOf(s, { v }) \cup BelowWithStructure(s, v) : w \in BelowWithStructure(s, w)

IsRecursiveTagUnion(c) == c.tag = "Structure" /\ c.flat.tag = "RecursiveTagUnion"

\* some path from v leads back to a variable already on the path, or to the
\* recursion variable of a recursive tag union on the path
RecursionPathReturns(s, v) ==
  \E w \in RootsOf(s, { v }) \cup Below(s, v, TRUE) :
    \/ w \in Below(s, w, TRUE)
    \/ /\ IsRecursiveTagUnion(get_content_without_compacting(s, w))
       /\ get_root_key_without_compacting(s, get_content_without_compacting(s, w).flat.rec)
            \in Below(s, w, TRUE)

\* occurs(v) is Ok on a graph whose only cycles pass through recursion variables
OccursSkipsStructure(s, v) == (~PathReturns(s, v, TRUE)) => Subs_occurs(s, v) = Ok

\* C30 as stated: occurs(v) does not follow RecursionVar.structure and is Ok
\* where every cycle passes through a recursion variable;
\* occurs_including_recursion_vars(v) takes RecursionVar.structure as part of
\* the walk and is Err where a path through it leads back.
C30_StructureWalked ==
  \A v \in UserVars(subs) :
    /\ OccursSkipsStructure(subs, v)
    /\ StructurePathReturns(subs, v) => occurs_including_recursion_vars(subs, v).tag = "Err"

\* C30 amended: occurs(v) does not follow RecursionVar.structure and is Ok
\* where every cycle passes through a recursion variable;
\* occurs_including_recursion_vars(v) does not follow it either, it is Err
\* exactly when a path leads back to a variable on it or to the recursion
\* variable of a recursive tag union on it.
C30_RecursionVarOnPath ==
  \A v \in UserVars(subs) :
    /\ OccursSkipsStructure(subs, v)
    /\ (occurs_including_recursion_vars(subs, v).tag = "Err") <=> RecursionPathReturns(subs, v)

\* a recursive tag union that mark_tag_union_recursive built, the recursion
\* variable in a payload: Ok for occurs, Err for occurs_including_recursion_vars
C30_Witness ==
  /\ last.op = "mark_tag_union_recursive"
  /\ IsRecursiveTagUnion(get_content_without_compacting(subs, last.recursive))
  /\ LET rec == get_content_without_compacting(subs, last.recursive).flat.rec
     IN /\ get_content_without_compacting(subs, rec).tag = "RecursionVar"
        /\ SameClass(subs, get_content_without_compacting(subs, rec).structure, last.recursive)
        /\ get_root_key_without_compacting(subs, rec) \in Below(subs, last.recursive, TRUE)
  /\ Subs_occurs(subs, last.recursive) = Ok
  /\ occurs_including_recursion_vars(subs, last.recursive).tag = "Err"

\* ============================================ the traversals, call by call
\* A walk is a call in progress: walk.stack holds the activations that have not
\* returned, the running one last. One step runs the running activation up to
\* its next call or its return; the call has returned when the stack is empty.

\* ------------------------------------------------------------------ occurs
\* an activation of occurs: the variables its loop has yet to visit
occurs_activation(root_var, new_seen, iter) ==
  [root_var |-> root_var, seen |-> new_seen, iter |-> iter]

\* occurs is entered: Err at a variable that was seen, else the loop is set up
occurs_entered(s, walk, seen, input_var, include_recursion_var) ==
  LET root_var == get_root_key_without_compacting(s, input_var)
      content == get_content_without_compacting(s, root_var)
  IN IF \E k \in 1..Len(seen) : seen[k] = root_var
     THEN [walk EXCEPT !.result = Err(root_var, << >>)]
     ELSE [walk EXCEPT !.stack =
             Append(@, occurs_activation(root_var,
                         occurs_new_seen(s, seen, root_var, content, include_recursion_var),
                         occurs_iter(s, content)))]

\* the running activation hands a failure on with its root pushed
\* (short_circuit_help), returns Ok at the end of its loop, or calls occurs
\* for the next variable
occurs_step(s, walk, include_recursion_var) ==
  LET top == walk.stack[Len(walk.stack)]
      rest == SubSeq(walk.stack, 1, Len(walk.stack) - 1)
  IN IF walk.result.tag = "Err"
     THEN [walk EXCEPT !.stack = rest,
                       !.result = Err(@.culprit, Append(@.path, top.root_var))]
     ELSE IF top.iter = << >> THEN [walk EXCEPT !.stack = rest]
     ELSE occurs_entered(s, [walk EXCEPT !.stack = Append(rest, [top EXCEPT !.iter = Tail(@)])],
                         top.seen, Head(top.iter), include_recursion_var)

\* ----------------------------------------------------------------- restore
\* one turn of the loop of restore_help
restore_help_turn(s, stack) ==
  LET var == stack[Len(stack)]
      rest == SubSeq(stack, 1, Len(stack) - 1)
      desc == get_ref(s, var)
  IN IF OptVariable_is_some(desc.copy)
     THEN Only({ [subs |-> s1, stack |-> rest \o restore_pushes(s1, desc.content)] :
                 s1 \in { get_ref_mut_write(s, var,
                            [desc EXCEPT !.rank = Rank_NONE, !.mark = Mark_NONE,
                                         !.copy = OptVariable_NONE]) } })
     ELSE [subs |-> s, stack |-> rest]

\* ----------------------------------------------------------- get_var_names
\* get_var_names is entered: a marked variable returns the names as they are,
\* a named variable adds its name, any other sets up the calls for its children
get_var_names_entered(s, walk, var) ==
  Only({ IF g.value.mark = Mark_GET_VAR_NAMES THEN [subs |-> g.subs, walk |-> walk]
         ELSE Only({ LET content == g.value.content
                         named(content_from_name) ==
                           Only({ [subs |-> a.subs,
                                   walk |-> [walk EXCEPT !.taken_names = a.taken_names]] :
                                  a \in { add_name(s1, 0, content.name, var, content_from_name,
                                                   walk.taken_names) } })
                     IN CASE content.tag \in { "FlexVar", "FlexAbleVar" }
                               /\ content.name # NoName -> named(FlexVar(NoName))
                          [] content.tag = "RecursionVar" /\ content.name # NoName ->
                               named(RecursionVar(content.structure, NoName))
                          [] content.tag \in { "RigidVar", "RigidAbleVar" } ->
                               named(RigidVar(NoName))
                          [] OTHER ->
                               [subs |-> s1,
                                walk |-> [walk EXCEPT !.stack =
                                            Append(@, [children |->
                                                         get_var_names_children(s1, content)])]] :
                     s1 \in { set_mark(g.subs, var, Mark_GET_VAR_NAMES) } }) :
         g \in { get(s, var) } })

\* the running activation returns at the end of its children, or calls
\* get_var_names for the next of them
get_var_names_step(s, walk) ==
  LET top == walk.stack[Len(walk.stack)]
      rest == SubSeq(walk.stack, 1, Len(walk.stack) - 1)
  IN IF top.children = << >> THEN [subs |-> s, walk |-> [walk EXCEPT !.stack = rest]]
     ELSE get_var_names_entered(
            s, [walk EXCEPT !.stack = Append(rest, [children |-> Tail(top.children)])],
            Head(top.children))

\* ---------------------------------------------------------- var_to_err_type
\* the variables var_to_err_type is called for below a content, in the order
\* of the calls
var_to_err_type_children(s, content) ==
  LET f == content.flat
  IN CASE content.tag = "Alias" ->
            << content.real >> \o VarsOf(s, AliasVariables_all_variables(content.args))
       [] content.tag = "RangedNumber" -> << content.typ >>
       [] content.tag = "RecursionVar" -> << content.structure >>
       [] content.tag = "Structure" /\ f.tag = "Apply" -> VarsOf(s, f.args)
       [] content.tag = "Structure" /\ f.tag = "Func" ->
            VarsOf(s, f.args) \o << f.ret, f.closure >>
       [] content.tag = "Structure" /\ f.tag = "Record" ->
            VarsOf(s, RecordFields_variables(f.fields)) \o << f.ext >>
       [] content.tag = "Structure" /\ f.tag = "TagUnion" ->
            Flatten(PayloadsOf(s, f.tags)) \o << f.ext >>
       [] content.tag = "Structure" /\ f.tag = "FunctionOrTagUnion" -> << f.ext >>
       [] content.tag = "Structure" /\ f.tag = "RecursiveTagUnion" ->
            Flatten(PayloadsOf(s, f.tags)) \o << f.rec, f.ext >>
       [] OTHER -> << >>

\* the projections errs, cut as the payloads are
RECURSIVE Regroup(_, _)
Regroup(errs, payloads) ==
  IF payloads = << >> THEN << >>
  ELSE << SubSeq(errs, 1, Len(Head(payloads))) >>
         \o Regroup(SubSeq(errs, Len(Head(payloads)) + 1, Len(errs)), Tail(payloads))

\* the value the caller gets: the outermost call's is the result of the walk
err_type_returned(walk, err) ==
  IF walk.stack = << >> THEN [walk EXCEPT !.result = err]
  ELSE [walk EXCEPT !.stack[Len(walk.stack)].errs = Append(@, err)]

\* var_to_err_type is entered: Infinite at a variable that carries Mark::OCCURS;
\* any other gets the mark, and the calls for its content are set up
var_to_err_type_entered(s, walk, var) ==
  Only({ IF g.value.mark = Mark_OCCURS
         THEN [subs |-> g.subs, walk |-> err_type_returned(walk, ErrorType_Infinite)]
         ELSE Only({ LET content == g.value.content
                         activation(children, name) ==
                           [var |-> var, mark |-> g.value.mark, content |-> content,
                            children |-> children, errs |-> << >>, name |-> name]
                     IN CASE content.tag = "RecursionVar" ->
                               Only({ [subs |-> n.subs,
                                       walk |-> [walk EXCEPT
                                         !.state = n.state,
                                         !.stack = Append(@, activation(
                                           IF \E k \in 1..Len(n.state.recursive_tag_unions_seen) :
                                                n.state.recursive_tag_unions_seen[k] = var
                                           THEN << >>
                                           ELSE << content.structure >>, n.name))]] :
                                      n \in { name_or_fresh(s1, walk.state, var, content.name) } })
                          [] content.tag = "Structure"
                               /\ content.flat.tag = "RecursiveTagUnion" ->
                               [subs |-> s1,
                                walk |-> [walk EXCEPT
                                  !.state.recursive_tag_unions_seen =
                                     Append(@, content.flat.rec),
                                  !.stack = Append(@, activation(
                                     var_to_err_type_children(s1, content), << >>))]]
                          [] OTHER ->
                               [subs |-> s1,
                                walk |-> [walk EXCEPT !.stack = Append(@, activation(
                                  var_to_err_type_children(s1, content), << >>))]] :
                     s1 \in { set_mark(g.subs, var, Mark_OCCURS) } }) :
         g \in { get(s, var) } })

\* the ErrorType an activation builds of the projections of its children
err_type_of_activation(s, state, top) ==
  LET content == top.content
      f == content.flat
      errs == top.errs
      n == Len(errs)
      built(err) == [subs |-> s, state |-> state, err |-> err]
  IN CASE content.tag = "Structure" /\ f.tag = "Apply" -> built(ErrorType_Type(f.symbol, errs))
       [] content.tag = "Structure" /\ f.tag = "Func" ->
            built(ErrorType_Function(SubSeq(errs, 1, n - 2), errs[n], errs[n - 1]))
       [] content.tag = "Structure" /\ f.tag = "EmptyRecord" ->
            built(ErrorType_Record(SendMap_default, TypeExt_Closed))
       [] content.tag = "Structure" /\ f.tag = "EmptyTagUnion" ->
            built(ErrorType_TagUnion(SendMap_default, TypeExt_Closed))
       [] content.tag = "Structure" /\ f.tag = "Record" ->
            record_with_ext(s, state,
                            err_fields_of(SliceOf(s.field_names, f.fields.field_names_start,
                                                  f.fields.length),
                                          SliceOf(s.record_fields, f.fields.field_types_start,
                                                  f.fields.length),
                                          SubSeq(errs, 1, n - 1)),
                            errs[n])
       [] content.tag = "Structure" /\ f.tag = "TagUnion" ->
            tag_union_with_ext(s, state,
                               err_tags_of(TagLabels(s, f.tags),
                                           Regroup(SubSeq(errs, 1, n - 1),
                                                   PayloadsOf(s, f.tags))),
                               errs[n])
       [] content.tag = "Structure" /\ f.tag = "FunctionOrTagUnion" ->
            tag_union_with_ext(s, state,
                               ImMap_insert(SendMap_default,
                                            TagLabel(At(s.tag_names, f.tag_name)), << >>),
                               errs[n])
       [] content.tag = "Structure" /\ f.tag = "RecursiveTagUnion" ->
            recursive_tag_union_with_ext(s, state, errs[n - 1],
                                         err_tags_of(TagLabels(s, f.tags),
                                                     Regroup(SubSeq(errs, 1, n - 2),
                                                             PayloadsOf(s, f.tags))),
                                         errs[n])
       [] content.tag = "Structure" /\ f.tag = "Erroneous" ->
            [subs |-> s,
             state |-> [state EXCEPT !.problems = Append(@, At(s.problems, f.problem))],
             err |-> ErrorType_Error]
       [] content.tag = "FlexVar" ->
            Only({ [subs |-> m.subs, state |-> m.state, err |-> ErrorType_FlexVar(m.name)] :
                   m \in { name_or_fresh(s, state, top.var, content.name) } })
       [] content.tag = "RigidVar" ->
            built(ErrorType_RigidVar(At(s.field_names, content.name)))
       [] content.tag = "FlexAbleVar" ->
            Only({ [subs |-> m.subs, state |-> m.state,
                    err |-> ErrorType_FlexAbleVar(m.name, content.ability)] :
                   m \in { name_or_fresh(s, state, top.var, content.name) } })
       [] content.tag = "RigidAbleVar" ->
            built(ErrorType_RigidAbleVar(At(s.field_names, content.name), content.ability))
       [] content.tag = "RecursionVar" ->
            built(IF n = 0 THEN ErrorType_FlexVar(top.name) ELSE errs[1])
       [] content.tag = "Alias" ->
            built(ErrorType_Alias(content.symbol, SubSeq(errs, 2, n), errs[1], content.kind))
       [] content.tag = "RangedNumber" -> built(errs[1])
       [] OTHER -> built(ErrorType_Error)

\* a step that leaves Mark::OCCURS on the variable of an activation that returns
var_to_err_type_step_leaving_mark(s, walk) ==
  LET top == walk.stack[Len(walk.stack)]
      rest == SubSeq(walk.stack, 1, Len(walk.stack) - 1)
  IN IF top.children # << >>
     THEN var_to_err_type_entered(
            s, [walk EXCEPT !.stack = Append(rest, [top EXCEPT !.children = Tail(@)])],
            Head(top.children))
     ELSE Only({ IF r.state.panicked
                 THEN [subs |-> r.subs,
                       walk |-> [walk EXCEPT !.stack = << >>, !.state = r.state,
                                             !.result = r.err]]
                 ELSE [subs |-> r.subs,
                       walk |-> err_type_returned([walk EXCEPT !.stack = rest,
                                                               !.state = r.state], r.err)] :
                 r \in { err_type_of_activation(s, walk.state, top) } })

\* the running activation calls var_to_err_type for the next child; at the end
\* of its children it builds its ErrorType, gives the variable the mark it
\* had and returns; a panic ends every activation
var_to_err_type_step(s, walk) ==
  LET top == walk.stack[Len(walk.stack)]
      rest == SubSeq(walk.stack, 1, Len(walk.stack) - 1)
  IN IF top.children # << >>
     THEN var_to_err_type_entered(
            s, [walk EXCEPT !.stack = Append(rest, [top EXCEPT !.children = Tail(@)])],
            Head(top.children))
     ELSE Only({ IF r.state.panicked
                 THEN [subs |-> r.subs,
                       walk |-> [walk EXCEPT !.stack = << >>, !.state = r.state,
                                             !.result = r.err]]
                 ELSE [subs |-> set_mark(r.subs, top.var, top.mark),
                       walk |-> err_type_returned([walk EXCEPT !.stack = rest,
                                                               !.state = r.state], r.err)] :
                 r \in { err_type_of_activation(s, walk.state, top) } })

\* var_to_error_type: get_var_names has returned when its stack is empty, and
\* var_to_err_type is called with the names it returns
var_to_error_type_named(r, var) ==
  IF r.walk.stack # << >> THEN r
  ELSE var_to_err_type_entered(
         r.subs,
         [phase |-> "var_to_err_type", stack |-> << >>,
          state |-> ErrorTypeState(DOMAIN r.walk.taken_names), result |-> [tag |-> "none"]],
         var)

\* ------------------------------------------------------ explicit_substitute
\* the statements of an activation that are left to run: a call whose answer is
\* written back to the slot it was read from ("slot"), pushed on new_variables
\* ("push") or kept for the new content ("keep"), and the end of a payload's
\* loop ("extend")
subst_slots(op, indices) == [k \in 1..Len(indices) |-> [op |-> op, index |-> indices[k]]]

subst_keep(var) == [op |-> "keep", var |-> var]

RECURSIVE subst_payloads(_, _)
subst_payloads(s, slice_indices) ==
  IF slice_indices = << >> THEN << >>
  ELSE subst_slots("push", SubsSlice_indices(At(s.variable_slices, Head(slice_indices))))
         \o << [op |-> "extend"] >> \o subst_payloads(s, Tail(slice_indices))

subst_statements(s, content) ==
  LET f == content.flat
  IN CASE content.tag = "Structure" /\ f.tag = "Apply" ->
            subst_slots("slot", SubsSlice_indices(f.args))
       [] content.tag = "Structure" /\ f.tag = "Func" ->
            subst_slots("slot", SubsSlice_indices(f.args))
              \o << subst_keep(f.ret), subst_keep(f.closure) >>
       [] content.tag = "Structure" /\ f.tag \in { "TagUnion", "RecursiveTagUnion" } ->
            << subst_keep(f.ext) >>
              \o subst_payloads(s, SubsSlice_indices(UnionTags_variables(f.tags)))
       [] content.tag = "Structure" /\ f.tag = "FunctionOrTagUnion" -> << subst_keep(f.ext) >>
       [] content.tag = "Structure" /\ f.tag = "Record" ->
            << subst_keep(f.ext) >>
              \o subst_slots("slot", SubsSlice_indices(RecordFields_variables(f.fields)))
       [] content.tag = "Alias" ->
            subst_slots("slot", SubsSlice_indices(AliasVariables_all_variables(content.args)))
              \o << subst_keep(content.real) >>
       [] content.tag = "RangedNumber" ->
            subst_slots("slot", SubsSlice_indices(content.range))
              \o << subst_keep(content.typ) >>
       [] OTHER -> << >>

\* the caller gets the answer of the call it made: the outermost call's is the
\* result of the walk
subst_answered(s, walk, answer) ==
  IF walk.stack = << >> THEN [subs |-> s, walk |-> [walk EXCEPT !.result = answer]]
  ELSE LET top == walk.stack[Len(walk.stack)]
       IN CASE top.calling.op = "slot" ->
                 [subs |-> [s EXCEPT !.variables = SetAt(@, top.calling.index, answer)],
                  walk |-> walk]
            [] top.calling.op = "push" ->
                 [subs |-> s,
                  walk |-> [walk EXCEPT !.stack[Len(walk.stack)].new_variables =
                              Append(@, answer)]]
            [] OTHER ->
                 [subs |-> s,
                  walk |-> [walk EXCEPT !.stack[Len(walk.stack)].kept = Append(@, answer)]]

\* explicit_substitute is entered: in_var is given back if its root was seen,
\* to if it is from; else the statements for its content are set up
subst_entered(s, walk, in_var) ==
  Only({ IF r.key \in walk.seen THEN subst_answered(r.subs, walk, in_var)
         ELSE Only({ Only({ IF rf.key = ri.key
                            THEN subst_answered(ri.subs, [walk EXCEPT !.seen = @ \cup { r.key }],
                                                walk.to)
                            ELSE Only({ [subs |-> g.subs,
                                         walk |-> [walk EXCEPT
                                           !.seen = @ \cup { r.key },
                                           !.stack = Append(@,
                                             [in_var |-> in_var, content |-> g.value.content,
                                              statements |->
                                                subst_statements(g.subs, g.value.content),
                                              calling |-> [op |-> "none"],
                                              kept |-> << >>, new_variables |-> << >>,
                                              new_slices |-> << >>])]] :
                                        g \in { get(ri.subs, in_var) } }) :
                            ri \in { get_root_key(rf.subs, in_var) } }) :
                     rf \in { get_root_key(r.subs, walk.from) } }) :
         r \in { get_root_key(s, in_var) } })

\* the content an activation writes at its end
subst_new_content(s, top) ==
  LET content == top.content
      f == content.flat
      moved == [f.tags EXCEPT !.variables_start = Len(s.variable_slices)]
  IN CASE content.tag = "Structure" /\ f.tag = "Func" ->
            Structure(Func(f.args, top.kept[2], top.kept[1]))
       [] content.tag = "Structure" /\ f.tag = "TagUnion" ->
            Structure(TagUnion(moved, top.kept[1]))
       [] content.tag = "Structure" /\ f.tag = "RecursiveTagUnion" ->
            Structure(RecursiveTagUnion(f.rec, moved, top.kept[1]))
       [] content.tag = "Structure" /\ f.tag = "FunctionOrTagUnion" ->
            Structure(FunctionOrTagUnion(f.tag_name, f.symbol, top.kept[1]))
       [] content.tag = "Structure" /\ f.tag = "Record" ->
            Structure(Record(f.fields, top.kept[1]))
       [] content.tag = "Alias" ->
            Alias(content.symbol, content.args, top.kept[1], content.kind)
       [] content.tag = "RangedNumber" -> RangedNumber(top.kept[1], content.range)
       [] OTHER -> content

\* the running activation runs its next statement; at the end of them it
\* writes the new content and returns in_var
subst_step(s, walk) ==
  LET top == walk.stack[Len(walk.stack)]
      rest == SubSeq(walk.stack, 1, Len(walk.stack) - 1)
      next == Head(top.statements)
      on == [top EXCEPT !.statements = Tail(@), !.calling = next]
  IN IF top.statements = << >>
     THEN LET f == top.content.flat
              written ==
                CASE top.content.tag \in { "Alias", "RangedNumber" } ->
                       set_content(s, top.in_var, subst_new_content(s, top))
                  [] top.content.tag = "Structure"
                       /\ f.tag \in { "TagUnion", "RecursiveTagUnion" } ->
                       set_content([s EXCEPT !.variable_slices = @ \o top.new_slices],
                                   top.in_var, subst_new_content(s, top))
                  [] top.content.tag = "Structure"
                       /\ f.tag \in { "Apply", "Func", "FunctionOrTagUnion", "Record" } ->
                       set_content(s, top.in_var, subst_new_content(s, top))
                  [] OTHER -> s
          IN subst_answered(written, [walk EXCEPT !.stack = rest], top.in_var)
     ELSE IF next.op = "extend"
     THEN [subs |-> [s EXCEPT !.variables = @ \o top.new_variables],
           walk |-> [walk EXCEPT !.stack = Append(rest,
                       [on EXCEPT !.new_variables = << >>,
                                  !.new_slices =
                                     Append(@, SubsSlice_new(Len(s.variables),
                                                             AsU16(Len(top.new_variables))))])]]
     ELSE subst_entered(s, [walk EXCEPT !.stack = Append(rest, on)],
                        IF next.op = "keep" THEN next.var ELSE At(s.variables, next.index))

\* the method Subs::explicit_substitute: the three roots, and an empty set seen
explicit_substitute_called(s, from, to, in_var) ==
  Only({ Only({ Only({ subst_entered(z.subs,
                                     [stack |-> << >>, seen |-> { }, from |-> x.key,
                                      to |-> y.key, result |-> OptVariable_NONE],
                                     z.key) :
                       z \in { get_root_key(y.subs, in_var) } }) :
                y \in { get_root_key(x.subs, to) } }) :
         x \in { get_root_key(s, from) } })

\* --------------------------------------- deep_copy_var_to and copy_import_to
\* the statements of an activation that are left to run; the two copies go
\* through a content alike:
\*   "slice"      a slice is reserved in the target for the copies of old
\*   "zip"        a call whose answer is written to the slot new of the target
\*   "keep"       a call whose answer is kept for the new content
\*   "slices"     the payload slices of a union are reserved in the target
\*   "payload"    a slice is reserved for the copies of the payload k
\*   "filled"     the payload k of the copy is the slice that was filled
\*   "tag_names"  the tag names are cloned
\*   "tag_name"   the tag name of a FunctionOrTagUnion is cloned
\*   "fields"     the field names and kinds are cloned
copy_keep(var) == [op |-> "keep", var |-> var]

copy_slice(old) == [op |-> "slice", old |-> old]

copy_zip(new, old) ==
  [k \in 1..Min(new.length, old.length) |->
     [op |-> "zip", new |-> new.start + k - 1, old |-> old.start + k - 1]]

copy_payloads(tags) == [k \in 1..tags.length |-> [op |-> "payload", k |-> k - 1]]

copy_statements(content) ==
  LET f == content.flat
  IN CASE content.tag = "RecursionVar" -> << copy_keep(content.structure) >>
       [] content.tag = "Alias" ->
            << copy_slice(AliasVariables_all_variables(content.args)),
               copy_keep(content.real) >>
       [] content.tag = "RangedNumber" ->
            << copy_keep(content.typ), copy_slice(content.range) >>
       [] content.tag = "Structure" /\ f.tag = "Apply" -> << copy_slice(f.args) >>
       [] content.tag = "Structure" /\ f.tag = "Func" ->
            << copy_keep(f.ret), copy_keep(f.closure), copy_slice(f.args) >>
       [] content.tag = "Structure" /\ f.tag = "Record" ->
            << copy_slice(RecordFields_variables(f.fields)), [op |-> "fields"],
               copy_keep(f.ext) >>
       [] content.tag = "Structure" /\ f.tag = "TagUnion" ->
            << copy_keep(f.ext), [op |-> "slices"] >> \o copy_payloads(f.tags)
              \o << [op |-> "tag_names"] >>
       [] content.tag = "Structure" /\ f.tag = "FunctionOrTagUnion" ->
            << [op |-> "tag_name"], copy_keep(f.ext) >>
       [] content.tag = "Structure" /\ f.tag = "RecursiveTagUnion" ->
            << [op |-> "slices"] >> \o copy_payloads(f.tags)
              \o << [op |-> "tag_names"], copy_keep(f.ext), copy_keep(f.rec) >>
       [] OTHER -> << >>

\* the contents that are copied without a call for another variable
copy_of_leaf(content) ==
  \/ content.tag \in { "FlexVar", "RigidVar", "FlexAbleVar", "RigidAbleVar", "Error" }
  \/ /\ content.tag = "Structure"
     /\ content.flat.tag \in { "EmptyRecord", "EmptyTagUnion", "Erroneous" }

\* the caller gets the answer of the call it made: the outermost call's is the
\* result of the walk
copy_answered(walk, answer) ==
  IF walk.stack = << >> THEN [walk EXCEPT !.result = answer]
  ELSE LET top == walk.stack[Len(walk.stack)]
       IN IF top.calling.op = "zip"
          THEN [walk EXCEPT !.env.target.variables = SetAt(@, top.calling.new, answer)]
          ELSE [walk EXCEPT !.stack[Len(walk.stack)].kept = Append(@, answer)]

\* the arms of the match of deep_copy_var_to_help that make no call
deep_copy_leaf(env, copy, content) ==
  CASE content.tag = "Structure" ->
         [env EXCEPT !.target = set(@, copy, make_descriptor(content, env.max_rank))]
    [] content.tag \in { "FlexVar", "FlexAbleVar" } /\ content.name = NoName ->
         IF content.tag = "FlexVar" THEN env
         ELSE [env EXCEPT !.target =
                 set_content(@, copy, FlexAbleVar(NoName, content.ability))]
    [] content.tag = "Error" -> env
    [] OTHER ->
         Only({ [n.env EXCEPT !.target =
                   CASE content.tag = "FlexVar" -> set_content(@, copy, FlexVar(n.index))
                     [] content.tag = "FlexAbleVar" ->
                          set_content(@, copy, FlexAbleVar(n.index, content.ability))
                     [] content.tag = "RigidVar" ->
                          set(@, copy, make_descriptor(FlexVar(n.index), env.max_rank))
                     [] content.tag = "RigidAbleVar" ->
                          set(@, copy,
                              make_descriptor(FlexAbleVar(n.index, content.ability),
                                              env.max_rank))] :
                n \in { push_name_to_target(env, content.name) } })

\* the arms of the match of copy_import_to_help that make no call
copy_import_leaf(env, max_rank, var, copy, content) ==
  CASE content.tag = "Structure" ->
         [env EXCEPT !.target =
            set(@, copy,
                make_descriptor(IF content.flat.tag = "Erroneous" THEN FlexVar(NoName)
                                ELSE content,
                                max_rank))]
    [] content.tag = "Error" ->
         [env EXCEPT !.target = set(@, copy, make_descriptor(Error, max_rank))]
    [] content.tag = "FlexVar" /\ content.name = NoName ->
         [env EXCEPT !.flex = Append(@, copy)]
    [] content.tag = "FlexAbleVar" /\ content.name = NoName ->
         [env EXCEPT !.flex_able = Append(@, copy)]
    [] OTHER ->
         Only({ CASE content.tag = "FlexVar" ->
                       [n.env EXCEPT !.target = set_content(@, copy, FlexVar(n.index)),
                                     !.flex = Append(@, copy)]
                  [] content.tag = "FlexAbleVar" ->
                       [n.env EXCEPT
                          !.target = set_content(@, copy,
                                                 FlexAbleVar(n.index, content.ability)),
                          !.flex_able = Append(@, copy)]
                  [] content.tag = "RigidVar" ->
                       [n.env EXCEPT
                          !.target = set(@, copy,
                                         make_descriptor(RigidVar(n.index), max_rank)),
                          !.rigid = Append(@, copy),
                          !.translations = Append(@, << var, copy >>)]
                  [] content.tag = "RigidAbleVar" ->
                       [n.env EXCEPT
                          !.target = set(@, copy,
                                         make_descriptor(
                                           RigidAbleVar(n.index, content.ability),
                                           max_rank)),
                          !.rigid_able = Append(@, copy),
                          !.translations = Append(@, << var, copy >>)] :
                n \in { push_name_to_target(env, content.name) } })

\* a copy that is entered without a look at the copy the variable holds
copy_entered_anew(walk, var) ==
  LET env == walk.env
      desc == get_without_compacting(env.source, var)
  IN Only({ LET entered == [env EXCEPT
                              !.visited = Append(@, var),
                              !.target = t.subs,
                              !.registered = IF walk.import /\ is_registered(desc.content)
                                             THEN Append(@, t.var) ELSE @,
                              !.source = modify_mark_copy(@, var, t.var)]
            IN IF copy_of_leaf(desc.content)
               THEN copy_answered(
                      [walk EXCEPT !.env =
                         IF walk.import
                         THEN copy_import_leaf(entered, walk.max_rank, var, t.var,
                                               desc.content)
                         ELSE deep_copy_leaf(entered, t.var, desc.content)],
                      t.var)
               ELSE [walk EXCEPT
                       !.env = entered,
                       !.stack = Append(@, [var |-> var, copy |-> t.var,
                                            content |-> desc.content,
                                            statements |-> copy_statements(desc.content),
                                            calling |-> [op |-> "none"], kept |-> << >>,
                                            slice |-> SubsSlice_default,
                                            slices |-> SubsSlice_default,
                                            names |-> SubsSlice_default,
                                            fields |-> 0, name |-> 0])] :
            t \in { IF walk.import
                    THEN fresh(env.target, make_descriptor(unnamed_flex_var, walk.max_rank))
                    ELSE fresh_unnamed_flex_var(env.target) } })

\* the copy is entered: a variable that holds a copy returns it; any other gets
\* a fresh variable of the target as its copy before its content is gone through
copy_entered(walk, var) ==
  LET env == walk.env
      desc == get_without_compacting(env.source, var)
  IN IF OptVariable_is_some(desc.copy) THEN copy_answered(walk, desc.copy)
     ELSE
     Only({ LET entered == [env EXCEPT
                              !.visited = Append(@, var),
                              !.target = t.subs,
                              !.registered = IF walk.import /\ is_registered(desc.content)
                                             THEN Append(@, t.var) ELSE @,
                              !.source = modify_mark_copy(@, var, t.var)]
            IN IF copy_of_leaf(desc.content)
               THEN copy_answered(
                      [walk EXCEPT !.env =
                         IF walk.import
                         THEN copy_import_leaf(entered, walk.max_rank, var, t.var,
                                               desc.content)
                         ELSE deep_copy_leaf(entered, t.var, desc.content)],
                      t.var)
               ELSE [walk EXCEPT
                       !.env = entered,
                       !.stack = Append(@, [var |-> var, copy |-> t.var,
                                            content |-> desc.content,
                                            statements |-> copy_statements(desc.content),
                                            calling |-> [op |-> "none"], kept |-> << >>,
                                            slice |-> SubsSlice_default,
                                            slices |-> SubsSlice_default,
                                            names |-> SubsSlice_default,
                                            fields |-> 0, name |-> 0])] :
            t \in { IF walk.import
                    THEN fresh(env.target, make_descriptor(unnamed_flex_var, walk.max_rank))
                    ELSE fresh_unnamed_flex_var(env.target) } })

\* the content an activation gives the copy at its end
copy_new_content(top) ==
  LET content == top.content
      f == content.flat
      tags == UnionTags_from_slices(top.names, top.slices)
  IN CASE content.tag = "RecursionVar" -> RecursionVar(top.kept[1], content.name)
       [] content.tag = "Alias" ->
            Alias(content.symbol, [content.args EXCEPT !.variables_start = top.slice.start],
                  top.kept[1], content.kind)
       [] content.tag = "RangedNumber" -> RangedNumber(top.kept[1], top.slice)
       [] content.tag = "Structure" /\ f.tag = "Apply" ->
            Structure(Apply(f.symbol, top.slice))
       [] content.tag = "Structure" /\ f.tag = "Func" ->
            Structure(Func(top.slice, top.kept[2], top.kept[1]))
       [] content.tag = "Structure" /\ f.tag = "Record" ->
            Structure(Record(top.fields, top.kept[1]))
       [] content.tag = "Structure" /\ f.tag = "TagUnion" ->
            Structure(TagUnion(tags, top.kept[1]))
       [] content.tag = "Structure" /\ f.tag = "FunctionOrTagUnion" ->
            Structure(FunctionOrTagUnion(top.name, f.symbol, top.kept[1]))
       [] content.tag = "Structure" /\ f.tag = "RecursiveTagUnion" ->
            Structure(RecursiveTagUnion(top.kept[2], tags, top.kept[1]))

\* the running activation runs its next statement; at the end of them it sets
\* the descriptor of the copy and returns the copy
copy_step(walk) ==
  LET top == walk.stack[Len(walk.stack)]
      rest == SubSeq(walk.stack, 1, Len(walk.stack) - 1)
      next == Head(top.statements)
      on == [top EXCEPT !.statements = Tail(@), !.calling = next]
      env == walk.env
      ran(e, activation) == [walk EXCEPT !.env = e, !.stack = Append(rest, activation)]
  IN IF top.statements = << >>
     THEN copy_answered([walk EXCEPT
                           !.stack = rest,
                           !.env.target = set(@, top.copy,
                                              make_descriptor(copy_new_content(top),
                                                              walk.max_rank))],
                        top.copy)
     ELSE CASE next.op = "slice" ->
                 Only({ ran([env EXCEPT !.target = n.subs],
                            [on EXCEPT !.slice = n.slice,
                                       !.statements = copy_zip(n.slice, next.old) \o @]) :
                        n \in { reserve_into_subs(env.target, next.old.length) } })
            [] next.op = "slices" ->
                 Only({ ran([env EXCEPT !.target = n.subs], [on EXCEPT !.slices = n.slice]) :
                        n \in { reserve_variable_slices(env.target,
                                                        top.content.flat.tags.length) } })
            [] next.op = "payload" ->
                 Only({ Only({ ran([env EXCEPT !.target = n.subs],
                                   [on EXCEPT !.statements =
                                      copy_zip(n.slice, old)
                                        \o << [op |-> "filled", k |-> next.k,
                                               slice |-> n.slice] >> \o @]) :
                               n \in { reserve_into_subs(env.target, old.length) } }) :
                        old \in { At(env.source.variable_slices,
                                     top.content.flat.tags.variables_start + next.k) } })
            [] next.op = "filled" ->
                 ran([env EXCEPT !.target.variable_slices =
                        SetAt(@, top.slices.start + next.k, next.slice)], on)
            [] next.op = "tag_names" ->
                 Only({ ran(n.env, [on EXCEPT !.names = n.slice]) :
                        n \in { extend_tag_names(env, top.content.flat.tags) } })
            [] next.op = "tag_name" ->
                 ran([env EXCEPT !.target.tag_names =
                        Append(@, At(env.source.tag_names, top.content.flat.tag_name))],
                     [on EXCEPT !.name = Len(env.target.tag_names)])
            [] next.op = "fields" ->
                 Only({ ran(n.env, [on EXCEPT !.fields = n.fields]) :
                        n \in { extend_record_fields(env, top.content.flat.fields,
                                                     top.slice.start) } })
            [] next.op = "zip" ->
                 copy_entered([walk EXCEPT !.stack = Append(rest, on)],
                              At(env.source.variables, next.old))
            [] OTHER ->
                 copy_entered([walk EXCEPT !.stack = Append(rest, on)], next.var)

\* the outermost call has returned: the variables that were visited are cleared
copy_returned(walk) ==
  IF walk.stack # << >> THEN walk
  ELSE [walk EXCEPT !.env.source =
          IF walk.import THEN copy_import_clear_visited(@, walk.env.visited)
          ELSE deep_copy_clear_visited(@, walk.env.visited)]

\* the environment of either copy
CopyWalkEnv(source, dest, max_rank) ==
  [visited |-> << >>, source |-> source, target |-> dest, max_rank |-> max_rank,
   flex |-> << >>, rigid |-> << >>, flex_able |-> << >>, rigid_able |-> << >>,
   translations |-> << >>, registered |-> << >>]

deep_copy_var_to_called(source, dest, var) ==
  copy_returned(copy_entered([stack |-> << >>, import |-> FALSE, max_rank |-> Rank_toplevel,
                              env |-> CopyWalkEnv(source, dest, Rank_toplevel),
                              result |-> OptVariable_NONE],
                             var))

copy_import_to_called(source, dest, var, rank) ==
  copy_returned(copy_entered([stack |-> << >>, import |-> TRUE, max_rank |-> rank,
                              env |-> CopyWalkEnv(source, dest, rank),
                              result |-> OptVariable_NONE],
                             var))

\* ------------------------------------------------ the graphs that are walked
WalkInnerContentsOf(b) ==
  { RigidVar(b.a), RecursionVar(UserVar(0), NoName),
    Structure(Apply("LIST_LIST", SubsSlice_new(b.args.start + 2, 1))) }

WalkLeafContentsOf(b) == { unnamed_flex_var, RecursionVar(UserVar(0), b.a) }

\* the variables a walk starts at: the fourth stands for the first
WalkVars == { UserVar(1), UserVar(2), UserVar(3) }

\* every graph as it is, and with a copy held by each of its variables
WalkSources ==
  UNION { UNION { { s, Held(s, 1..Len(HeldVars), 1) } :
                  s \in { set_content(set_content(set_content(b.subs, UserVar(0), c0),
                                                  UserVar(1), c1),
                                      UserVar(2), c2) :
                          c0 \in OccursContentsOf(b), c1 \in WalkInnerContentsOf(b),
                          c2 \in WalkLeafContentsOf(b) } } :
          b \in { NamesBuild } }

\* the activations a walk is followed to
MaxActive == 6

InitWalks ==
  /\ subs \in WalkSources
  /\ target = Subs_new
  /\ snapshots = << >>
  /\ saved = << >>
  /\ last = [op |-> "new"]

Walking(op) ==
  /\ last.op = op
  /\ last.walk.stack # << >>
  /\ Len(last.walk.stack) <= MaxActive

\* saved keeps the two stores as they were before the call
WalkOccurs ==
  /\ last.op = "new"
  /\ \E var \in WalkVars, include_recursion_var \in BOOLEAN :
      /\ last' = [op |-> "occurs", var |-> var, include |-> include_recursion_var,
                  walk |-> occurs_entered(subs, [stack |-> << >>, result |-> Ok], << >>, var,
                                          include_recursion_var)]
      /\ saved' = << subs, target >>
      /\ UNCHANGED << subs, target, snapshots >>

StepOccurs ==
  /\ Walking("occurs")
  /\ last' = [last EXCEPT !.walk = occurs_step(subs, @, last.include)]
  /\ UNCHANGED << subs, target, snapshots, saved >>

WalkExplicitSubstitute ==
  /\ last.op = "new"
  /\ \E to \in { UserVar(1), UserVar(2) }, in_var \in WalkVars :
      \E r \in { explicit_substitute_called(subs, UserVar(3), to, in_var) } :
        /\ subs' = r.subs
        /\ last' = [op |-> "explicit_substitute", var |-> in_var, from |-> UserVar(3),
                    to |-> to, walk |-> r.walk]
        /\ saved' = << subs, target >>
        /\ UNCHANGED << target, snapshots >>

StepExplicitSubstitute ==
  /\ Walking("explicit_substitute")
  /\ \E r \in { subst_step(subs, last.walk) } :
    /\ subs' = r.subs
    /\ last' = [last EXCEPT !.walk = r.walk]
    /\ UNCHANGED << target, snapshots, saved >>

WalkGetVarNames ==
  /\ last.op = "new"
  /\ \E var \in WalkVars :
      \E r \in { get_var_names_entered(subs, [stack |-> << >>, taken_names |-> ImMap_default],
                                       var) } :
        /\ subs' = r.subs
        /\ last' = [op |-> "get_var_names", var |-> var, walk |-> r.walk]
        /\ saved' = << subs, target >>
        /\ UNCHANGED << target, snapshots >>

StepGetVarNames ==
  /\ Walking("get_var_names")
  /\ \E r \in { get_var_names_step(subs, last.walk) } :
    /\ subs' = r.subs
    /\ last' = [last EXCEPT !.walk = r.walk]
    /\ UNCHANGED << target, snapshots, saved >>

WalkVarToErrorType ==
  /\ last.op = "new"
  /\ \E var \in WalkVars :
      \E r \in { var_to_error_type_named(
                   get_var_names_entered(subs, [phase |-> "get_var_names", stack |-> << >>,
                                                taken_names |-> ImMap_default], var),
                   var) } :
        /\ subs' = r.subs
        /\ last' = [op |-> "var_to_error_type", var |-> var, walk |-> r.walk]
        /\ saved' = << subs, target >>
        /\ UNCHANGED << target, snapshots >>

StepVarToErrorType ==
  /\ Walking("var_to_error_type")
  /\ \E r \in { IF last.walk.phase = "get_var_names"
                 THEN var_to_error_type_named(get_var_names_step(subs, last.walk), last.var)
                 ELSE var_to_err_type_step(subs, last.walk) } :
    /\ subs' = r.subs
    /\ last' = [last EXCEPT !.walk = r.walk]
    /\ UNCHANGED << target, snapshots, saved >>

WalkRestore ==
  /\ last.op = "new"
  /\ \E var \in WalkVars :
      /\ last' = [op |-> "restore", var |-> var, walk |-> [stack |-> << var >>]]
      /\ saved' = << subs, target >>
      /\ UNCHANGED << subs, target, snapshots >>

StepRestore ==
  /\ Walking("restore")
  /\ \E r \in { restore_help_turn(subs, last.walk.stack) } :
    /\ subs' = r.subs
    /\ last' = [last EXCEPT !.walk.stack = r.stack]
    /\ UNCHANGED << target, snapshots, saved >>

WalkDeepCopyVarTo ==
  /\ last.op = "new"
  /\ \E var \in WalkVars :
      \E walk \in { deep_copy_var_to_called(subs, target, var) } :
        /\ subs' = walk.env.source
        /\ target' = walk.env.target
        /\ last' = [op |-> "deep_copy_var_to", var |-> var, walk |-> walk]
        /\ saved' = << subs, target >>
        /\ UNCHANGED << snapshots >>

StepDeepCopyVarTo ==
  /\ Walking("deep_copy_var_to")
  /\ \E walk \in { copy_returned(copy_step(last.walk)) } :
      /\ subs' = walk.env.source
      /\ target' = walk.env.target
      /\ last' = [last EXCEPT !.walk = walk]
      /\ UNCHANGED << snapshots, saved >>

WalkCopyImportTo ==
  /\ last.op = "new"
  /\ \E var \in WalkVars :
      \E walk \in { copy_import_to_called(subs, target, var, Rank_import) } :
        /\ subs' = walk.env.source
        /\ target' = walk.env.target
        /\ last' = [op |-> "copy_import_to", var |-> var, walk |-> walk]
        /\ saved' = << subs, target >>
        /\ UNCHANGED << snapshots >>

StepCopyImportTo ==
  /\ Walking("copy_import_to")
  /\ \E walk \in { copy_returned(copy_step(last.walk)) } :
      /\ subs' = walk.env.source
      /\ target' = walk.env.target
      /\ last' = [last EXCEPT !.walk = walk]
      /\ UNCHANGED << snapshots, saved >>

\* the running call takes its next step
StepWalk ==
  \/ StepOccurs
  \/ StepExplicitSubstitute
  \/ StepGetVarNames
  \/ StepVarToErrorType
  \/ StepRestore
  \/ StepDeepCopyVarTo
  \/ StepCopyImportTo

NextWalks ==
  \/ WalkOccurs
  \/ WalkExplicitSubstitute
  \/ WalkGetVarNames
  \/ WalkVarToErrorType
  \/ WalkRestore
  \/ WalkDeepCopyVarTo
  \/ WalkCopyImportTo
  \/ StepOccurs
  \/ StepExplicitSubstitute
  \/ StepGetVarNames
  \/ StepVarToErrorType
  \/ StepRestore
  \/ StepDeepCopyVarTo
  \/ StepCopyImportTo

SpecWalks == InitWalks /\ [][NextWalks]_vars

\* a call that is running is not held up
FairWalks == SpecWalks /\ WF_vars(StepWalk)

\* the outermost call has returned
Returned == last.op # "new" /\ last.walk.stack = << >>

\* what a walk leaves is what the call it follows leaves
WalkAgrees ==
  Returned =>
    CASE last.op = "occurs" ->
           last.walk.result = occurs(saved[1], << >>, last.var, last.include)
      [] last.op = "explicit_substitute" ->
           LET r == explicit_substitute(saved[1], last.from, last.to, last.var)
           IN subs = r.subs /\ last.walk.result = r.var
      [] last.op = "get_var_names" ->
           LET r == get_var_names(saved[1], last.var, ImMap_default)
           IN subs = r.subs /\ last.walk.taken_names = r.taken_names
      [] last.op = "var_to_error_type" ->
           LET r == var_to_error_type(saved[1], last.var)
           IN /\ subs = r.subs
              /\ last.walk.state.panicked = r.panicked
              /\ last.walk.state.problems = r.problems
              /\ (~r.panicked) => last.walk.result = r.err
      [] last.op = "restore" -> subs = restore(saved[1], last.var)
      [] last.op = "deep_copy_var_to" ->
           LET r == deep_copy_var_to(saved[1], saved[2], last.var)
           IN subs = r.source /\ target = r.target /\ last.walk.result = r.var
      [] last.op = "copy_import_to" ->
           LET r == copy_import_to(saved[1], saved[2], last.var, Rank_import)
               env == last.walk.env
           IN /\ subs = r.source
              /\ target = r.target
              /\ r.copied_import =
                   [variable |-> last.walk.result, flex |-> env.flex, rigid |-> env.rigid,
                    flex_able |-> env.flex_able, rigid_able |-> env.rigid_able,
                    translations |-> env.translations, registered |-> env.registered]

\* C25: every call of occurs, occurs_including_recursion_vars,
\* explicit_substitute, get_var_names, var_to_error_type, restore,
\* deep_copy_var_to and copy_import_to on a finite graph returns, on graphs with
\* cycles through no recursion variable and on graphs with recursion
\* variables as on any other.
C25_EveryWalkReturns == (last.op # "new") ~> Returned

\* a copy that went through more than one variable of a graph with a cycle
\* through no recursion variable, and has returned
C25_Witness ==
  /\ Returned
  /\ last.op = "deep_copy_var_to"
  /\ PathReturns(saved[1], last.var, TRUE)
  /\ Len(last.walk.env.visited) >= 2

\* ======================================================== the numeric tower
\* the four reserved variables of a chain: << base, wrapped base, Num link,
\* user-facing alias >>
IntegerChains ==
  { << Var(sgn \o w), Var("INTEGER_" \o sgn \o w), Var("NUM_INTEGER_" \o sgn \o w),
       Var((IF sgn = "SIGNED" THEN "I" ELSE "U") \o w) >> :
    sgn \in { "SIGNED", "UNSIGNED" }, w \in { "8", "16", "32", "64", "128" } }
    \cup { << Var("NATURAL"), Var("INTEGER_NATURAL"), Var("NUM_INTEGER_NATURAL"),
              Var("NAT") >> }

FloatChains ==
  { << Var("BINARY32"), Var("FLOAT_BINARY32"), Var("NUM_FLOAT_BINARY32"), Var("F32") >>,
    << Var("BINARY64"), Var("FLOAT_BINARY64"), Var("NUM_FLOAT_BINARY64"), Var("F64") >>,
    << Var("DECIMAL"), Var("FLOAT_DECIMAL"), Var("NUM_FLOAT_DECIMAL"), Var("DEC") >> }

\* the content of v is an alias of the kind with the type arguments args and
\* the real variable real, and no other argument
AliasOf(s, v, kind, args, real) ==
  LET c == get_content_without_compacting(s, v)
  IN /\ c.tag = "Alias"
     /\ c.kind = kind
     /\ c.real = real
     /\ c.args.type_variables_len = Len(args)
     /\ VarsOf(s, AliasVariables_all_variables(c.args)) = args

\* the links above the base: the wrapper and NUM_NUM are opaque aliases of the
\* link before them with that link as single argument, the user-facing alias is
\* a structural alias of the Num link without arguments
LinksShape(s, chain, wrapper) ==
  /\ AliasOf(s, chain[2], "Opaque", << chain[1] >>, chain[1])
  /\ get_content_without_compacting(s, chain[2]).symbol = wrapper
  /\ AliasOf(s, chain[3], "Opaque", << chain[2] >>, chain[2])
  /\ get_content_without_compacting(s, chain[3]).symbol = "NUM_NUM"
  /\ AliasOf(s, chain[4], "Structural", << >>, chain[3])

ChainShape(s, chain, wrapper) ==
  /\ AliasOf(s, chain[1], "Opaque", << >>, Var("EMPTY_TAG_UNION"))
  /\ LinksShape(s, chain, wrapper)

\* C31: after construction every integer chain (each width and signedness,
\* and Natural) and every float chain (Binary32, Binary64, Decimal) has the
\* shape: the base is an opaque alias of EMPTY_TAG_UNION without arguments,
\* Integer base / Float base and Num (..) are opaque aliases of the link
\* before them with that link as their single argument, and the user-facing
\* alias is a structural alias of the Num link without arguments.
C31_TowerShape ==
  (last.op \in { "new", "with_capacity" })
    => /\ \A chain \in IntegerChains : ChainShape(subs, chain, "NUM_INTEGER")
       /\ \A chain \in FloatChains : ChainShape(subs, chain, "NUM_FLOATINGPOINT")

\* the integer chains have the shape, and the float chains have it above a
\* base that is a structural alias
TowerAsBuilt ==
  (last.op \in { "new", "with_capacity" })
    => /\ \A chain \in IntegerChains : ChainShape(subs, chain, "NUM_INTEGER")
       /\ \A chain \in FloatChains :
            /\ LinksShape(subs, chain, "NUM_FLOATINGPOINT")
            /\ AliasOf(subs, chain[1], "Structural", << >>, Var("EMPTY_TAG_UNION"))

\* ====================================================== the scratch arena
\* SCRATCHPAD is a cell of the thread that holds the arena ("Some") or nothing
\* ("None"); the arena is reset before it is put back, so a call depends on
\* nothing but its presence. In this specification saved holds the cell.
\* f.take().unwrap(): the cell is left empty; unwrap panics on an empty cell
take_scratchpad(cell) == [cell |-> "None", panic |-> cell = "None"]

\* a return that drops the arena instead of putting it back
put_scratchpad_dropped(cell) == cell

\* f.replace(Some(scratchpad))
put_scratchpad(cell) == "Some"

\* calls that are started on one thread
MaxScratchCalls == 2

InitScratch ==
  /\ subs \in CopySources
  /\ target = Subs_new
  /\ snapshots = << >>
  /\ saved = [SCRATCHPAD |-> "Some"]
  /\ last = [op |-> "new", phase |-> "idle", started |-> 0, returned |-> << >>,
             walk |-> [stack |-> << >>]]

\* the statements of deep_copy_var_to and copy_import_to up to the first
\* statement of the help function: a call that finds the cell empty panics
\* before it reads or writes a store
ScratchStarted(name, import, rank, var) ==
  \E t \in { take_scratchpad(saved.SCRATCHPAD) } :
    IF t.panic
    THEN /\ last' = [last EXCEPT !.op = name, !.phase = "panic", !.started = @ + 1]
         /\ UNCHANGED << subs, target, snapshots, saved >>
    ELSE \E walk \in { copy_entered([stack |-> << >>, import |-> import, max_rank |-> rank,
                                     env |-> CopyWalkEnv(subs, target, rank),
                                     result |-> OptVariable_NONE], var) } :
           /\ subs' = walk.env.source
           /\ target' = walk.env.target
           /\ saved' = [saved EXCEPT !.SCRATCHPAD = t.cell]
           /\ last' = [last EXCEPT !.op = name, !.phase = "running", !.started = @ + 1,
                                   !.walk = walk]
           /\ UNCHANGED << snapshots >>

\* a call is started between two calls, or while a call of the thread runs
StartDeepCopyVarTo ==
  /\ last.phase \in { "idle", "running" }
  /\ last.started < MaxScratchCalls
  /\ \E var \in CopyRoots(subs) :
       ScratchStarted("deep_copy_var_to", FALSE, Rank_toplevel, var)

StartCopyImportTo ==
  /\ last.phase \in { "idle", "running" }
  /\ last.started < MaxScratchCalls
  /\ \E var \in CopyRoots(subs) :
       ScratchStarted("copy_import_to", TRUE, Rank_import, var)

\* one statement of the help function
StepScratch ==
  /\ last.phase = "running"
  /\ last.walk.stack # << >>
  /\ \E walk \in { copy_step(last.walk) } :
       /\ subs' = walk.env.source
       /\ target' = walk.env.target
       /\ last' = [last EXCEPT !.walk = walk]
       /\ UNCHANGED << snapshots, saved >>

\* the help function has returned: the visited variables are cleared, the
\* arena is reset and put back, and the call returns
ReturnScratch ==
  /\ last.phase = "running"
  /\ last.walk.stack = << >>
  /\ subs' = IF last.walk.import
             THEN copy_import_clear_visited(subs, last.walk.env.visited)
             ELSE deep_copy_clear_visited(subs, last.walk.env.visited)
  /\ saved' = [saved EXCEPT !.SCRATCHPAD = put_scratchpad(@)]
  /\ last' = [op |-> last.op, phase |-> "idle", started |-> last.started,
              returned |-> Append(last.returned, last.op),
              walk |-> [stack |-> << >>, result |-> last.walk.result]]
  /\ UNCHANGED << target, snapshots >>

NextScratch ==
  \/ StartDeepCopyVarTo
  \/ StartCopyImportTo
  \/ StepScratch
  \/ ReturnScratch

SpecScratch == InitScratch /\ [][NextScratch]_vars

\* C32: deep_copy_var_to and copy_import_to (import and export) take the
\* scratch arena on entry and put it back before they return: between two
\* calls the arena is present, while a call runs it is taken, a call that is
\* started between two calls does not fail on the arena, and a call that is
\* started while the arena is taken does not proceed (it reads and writes no
\* store).
C32_ArenaProtocol ==
  /\ [](/\ (last.phase = "idle") => (saved.SCRATCHPAD = "Some")
        /\ (last.phase = "running") => (saved.SCRATCHPAD = "None"))
  /\ [][(last'.started # last.started)
          => IF saved.SCRATCHPAD = "None"
             THEN /\ last'.phase = "panic"
                  /\ subs' = subs
                  /\ target' = target
             ELSE /\ last.phase = "idle"
                  /\ last'.phase = "running"
                  /\ saved'.SCRATCHPAD = "None"]_vars

\* a deep copy and then an import have returned one after the other on one
\* thread, and the arena is present
C32_Witness ==
  /\ last.phase = "idle"
  /\ last.returned = << "deep_copy_var_to", "copy_import_to" >>
  /\ saved.SCRATCHPAD = "Some"

\* a call was started while the arena was taken
ScratchNested ==
  /\ last.phase = "panic"
  /\ saved.SCRATCHPAD = "None"

\* ==================================================== the redirect sentinel
\* unions and writes of a descriptor made on a store before it is written
MaxSentinelCalls == 2

\* the descriptors that are set on a variable before the store is written:
\* the largest rank and the largest mark, each alone and together, without a
\* copy and with one
SentinelDescriptors ==
  { Descriptor(content, rank, mark, copy) :
      content \in { Error },
      rank \in { Rank_toplevel, Rank_MAX },
      mark \in { Mark_NONE, Mark_MAX },
      copy \in { OptVariable_NONE, UserVar(1) } }

InitSentinel ==
  /\ subs \in { ListStore, RecordStore }
  /\ target = Subs_new
  /\ snapshots = << >>
  /\ saved = << >>
  /\ last = [op |-> "new", calls |-> 0]

\* Subs::union(left, right, desc) with the descriptor of left
SentinelUnion ==
  /\ last.calls < MaxSentinelCalls
  /\ \E l \in UserVars(subs), r \in UserVars(subs) :
      /\ l < r
      /\ subs' = union(subs, l, r, get_ref(subs, l))
      /\ last' = [op |-> "union", calls |-> last.calls + 1]
      /\ UNCHANGED << target, snapshots, saved >>

\* Subs::set(key, descriptor)
SentinelSet ==
  /\ last.calls < MaxSentinelCalls
  /\ \E key \in UserVars(subs), descriptor \in SentinelDescriptors :
      /\ subs' = set(subs, key, descriptor)
      /\ last' = [op |-> "set", calls |-> last.calls + 1]
      /\ UNCHANGED << target, snapshots, saved >>

NextSentinel ==
  \/ SentinelUnion
  \/ SentinelSet
  \/ RoundTrip

SpecSentinel == InitSentinel /\ [][NextSentinel]_vars

\* content Error, the largest rank, the largest mark and the root as copy
IsSentinelOf(desc, root) ==
  desc = Descriptor(Error, Rank_MAX, Mark_MAX, root)

\* a root of s carries the largest rank together with the largest mark
CarriesMaxRankAndMark(s) ==
  \E v \in AllVars(s) :
    /\ ~ut_is_redirect(s.utable, v)
    /\ is_redirect_descriptor(At(s.utable, v).value)

\* what the claim states of the store s that was written and the store t that
\* was read, panicked telling that the reading panicked
RedirectsKept(s, t, panicked) ==
  /\ ~panicked
  /\ Subs_len(t) = Subs_len(s)
  /\ \A v \in AllVars(s) :
       LET root == get_root_key_without_compacting(s, v)
       IN /\ IsSentinelOf(serialized_descriptor(s.utable, v), root)
               <=> ut_is_redirect(s.utable, v)
          /\ ut_is_redirect(t.utable, v) <=> ut_is_redirect(s.utable, v)
          /\ get_root_key_without_compacting(t, v) = root
          /\ At(t.utable, root).value = At(s.utable, root).value

\* C33: serialize writes the sentinel descriptor (Error, largest rank, largest
\* mark, copy = root) for a variable if and only if the variable is no root,
\* and deserialize makes a variable a redirect if and only if it was no root
\* when written, with the root it had, the root keeping its own descriptor;
\* for every descriptor a root carries, the largest rank together with the
\* largest mark included.
C33_RedirectSentinel ==
  (last.op = "deserialize") => RedirectsKept(subs, target, last.panic)

\* the same of the stores no root of which carries the largest rank together
\* with the largest mark
SentinelOfRedirectsOnly ==
  (last.op = "deserialize" /\ ~CarriesMaxRankAndMark(subs))
    => RedirectsKept(subs, target, last.panic)

\* ================================================ appending to the arenas
\* SubsSlice::reserve_tag_names: length tags of the empty name are appended
reserve_tag_names(s, length) ==
  [subs |-> [s EXCEPT !.tag_names = @ \o [k \in 1..length |-> TagName_Tag(<< >>)]],
   slice |-> SubsSlice_new(Len(s.tag_names), AsU16(length))]

\* appends made to one store
MaxAppends == 2

\* the numbers of items that are appended: none, a few, and the two smallest
\* numbers that do not fit the 16 bits of a length
AppendLengths == { 0, 1, 2, 2 ^ U16Bits, 2 ^ U16Bits + 1 }

\* a second append is made to a store whose arenas are short
MayAppend(n) ==
  /\ last.calls < MaxAppends
  /\ (last.calls > 0 => (n < 2 ^ U16Bits /\ last.n < 2 ^ U16Bits))

InitAppend ==
  /\ subs = Subs_new
  /\ target = Subs_new
  /\ snapshots = << >>
  /\ saved = << >>
  /\ last = [op |-> "new", calls |-> 0, n |-> 0]

\* last records the slice that was returned, the number of items and the
\* length the arena had before the call
Appended(op, r, n, before) ==
  /\ subs' = r.subs
  /\ last' = [op |-> op, calls |-> last.calls + 1, n |-> n, slice |-> r.slice,
              before |-> before]
  /\ UNCHANGED << target, snapshots, saved >>

\* SubsSlice::extend_new(&mut subs.field_names, names)
ExtendNew ==
  \E n \in AppendLengths :
    /\ MayAppend(n)
    /\ \E r \in { SubsSlice_extend_new(subs.field_names, [k \in 1..n |-> << "a" >>]) } :
         Appended("extend_new", [subs |-> [subs EXCEPT !.field_names = r.vec],
                                 slice |-> r.slice],
                  n, Len(subs.field_names))

ReserveVariableSlices ==
  \E n \in AppendLengths :
    /\ MayAppend(n)
    /\ \E r \in { reserve_variable_slices(subs, n) } :
         Appended("reserve_variable_slices", r, n, Len(subs.variable_slices))

ReserveTagNames ==
  \E n \in AppendLengths :
    /\ MayAppend(n)
    /\ \E r \in { reserve_tag_names(subs, n) } :
         Appended("reserve_tag_names", r, n, Len(subs.tag_names))

ReserveIntoSubs ==
  \E n \in AppendLengths :
    /\ MayAppend(n)
    /\ \E r \in { reserve_into_subs(subs, n) } :
         Appended("reserve_into_subs", r, n, Len(subs.variables))

InsertIntoSubs ==
  \E n \in AppendLengths :
    /\ MayAppend(n)
    /\ \E r \in { VariableSubsSlice_insert_into_subs(subs, [k \in 1..n |-> Var("BOOL")]) } :
         Appended("insert_into_subs", r, n, Len(subs.variables))

NextAppend ==
  \/ ExtendNew
  \/ ReserveVariableSlices
  \/ ReserveTagNames
  \/ ReserveIntoSubs
  \/ InsertIntoSubs

SpecAppend == InitAppend /\ [][NextAppend]_vars

\* the arena the last call appended to
AppendedArena ==
  CASE last.op = "extend_new" -> subs.field_names
    [] last.op = "reserve_variable_slices" -> subs.variable_slices
    [] last.op = "reserve_tag_names" -> subs.tag_names
    [] OTHER -> subs.variables

\* what a reserved entry of the arena holds
Placeholder ==
  CASE last.op = "reserve_variable_slices" -> SubsSlice_default
    [] last.op = "reserve_tag_names" -> TagName_Tag(<< >>)
    [] OTHER -> Var("NULL")

\* the slice returned spans the items appended, and what was reserved are
\* placeholders
SliceSpans ==
  /\ last.slice.start = last.before
  /\ last.slice.length = last.n
  /\ Len(AppendedArena) = last.before + last.n
  /\ (last.op \in { "reserve_variable_slices", "reserve_tag_names", "reserve_into_subs" })
       => \A k \in 1..last.n : AppendedArena[last.before + k] = Placeholder

\* C34: SubsSlice::extend_new, reserve_variable_slices, reserve_tag_names,
\* VariableSubsSlice::reserve_into_subs and insert_into_subs return, for every
\* number n of items (above 65535 too), the slice that starts at the length
\* the arena had and has length n; the arena grows by n, and reserved entries
\* are placeholders.
C34_SliceSpansAppended == (last.op # "new") => SliceSpans

\* the same for the numbers of items that fit 16 bits
SliceSpansShort == (last.op # "new" /\ last.n < 2 ^ U16Bits) => SliceSpans

\* the arena grows by n for every n, and the slice starts where it grew
ArenaGrows ==
  (last.op # "new")
    => /\ last.slice.start = last.before
       /\ last.slice.length = AsU16(last.n)
       /\ Len(AppendedArena) = last.before + last.n

\* ============================================== what a copy leaves of the source
\* the sources of SpecCopy as they are, with a rank and a mark on one or two of
\* their variables, and with their first two variables in one class
FrameSources ==
  UNION { { s } \cup { set_rank_mark(set_rank_mark(s, v, Rank_import, Mark_OCCURS),
                                        w, Rank_import, Mark_OCCURS) :
                          v \in UserVars(s), w \in UserVars(s) }
              \cup { set_rank_mark(union(s, UserVar(0), UserVar(1), get_ref(s, UserVar(1))),
                                   UserVar(0), Rank_import, Mark_GET_VAR_NAMES) } :
          s \in CopySources }

InitFrame ==
  /\ subs \in FrameSources
  /\ target = Subs_new
  /\ snapshots = << >>
  /\ saved = << >>
  /\ last = [op |-> "new", prev |-> "new", calls |-> 0]

SpecFrame == InitFrame /\ [][NextCopy]_vars

\* t is s but for the rank and the mark of the classes reached from v, which
\* are Rank::NONE and Mark::NONE in t
SourceKept(s, t, v) ==
  /\ t.variables = s.variables
  /\ t.variable_slices = s.variable_slices
  /\ t.tag_names = s.tag_names
  /\ t.field_names = s.field_names
  /\ t.record_fields = s.record_fields
  /\ t.problems = s.problems
  /\ Subs_len(t) = Subs_len(s)
  /\ \A x \in AllVars(s) :
       LET root == get_root_key_without_compacting(s, x)
           d == get_without_compacting(s, x)
           e == get_without_compacting(t, x)
       IN /\ get_root_key_without_compacting(t, x) = root
          /\ e.content = d.content
          /\ e.copy = d.copy
          /\ IF root \in ReachAll(s, RootsOf(s, { v }))
             THEN e.rank = Rank_NONE /\ e.mark = Mark_NONE
             ELSE At(t.utable, x) = At(s.utable, x)

\* C35: deep_copy_var_to(src, dst, v) and copy_import_to(src, dst, v, rank)
\* change no content and no root of the source and append nothing to its
\* arenas; afterwards only the rank and the mark of the variables reached from
\* v may differ, which are Rank::NONE and Mark::NONE, and a variable that is
\* not reached from v is as it was.
C35_SourceKept ==
  [][(last'.op \in { "deep_copy_var_to", "copy_import_to" })
       => SourceKept(subs, subs', last'.var)]_vars

\* a copy was made from a variable that had a rank and a mark, next to a
\* variable with a rank and a mark that the copy did not reach
C35_Witness ==
  /\ last.op \in { "deep_copy_var_to", "copy_import_to" }
  /\ \E s \in FrameSources :
       /\ SourceKept(s, subs, last.var)
       /\ s # subs
       /\ \E x \in UserVars(s) :
            /\ get_root_key_without_compacting(s, x) \notin ReachAll(s, RootsOf(s, { last.var }))
            /\ get_rank(subs, x) = Rank_import

\* ============================================ what a projection leaves of the store
\* d is c, or c with a name where c had none
NameAdded(c, d) ==
  \/ d = c
  \/ /\ d.tag = c.tag
     /\ c.tag \in { "FlexVar", "FlexAbleVar", "RecursionVar" }
     /\ c.name = NoName
     /\ d.name # NoName
     /\ d = [c EXCEPT !.name = d.name]

\* the variables of s whose content has the variant tag and no name
UnnamedOf(s, tags) ==
  { x \in AllVars(s) :
      LET c == get_content_without_compacting(s, x)
      IN c.tag \in tags /\ c.name = NoName }

\* t has the roots and the ranks of s, and the contents of s but for names
\* added, on the variables outside the set left
NamesOnlyAdded(s, t, left) ==
  /\ Subs_len(t) = Subs_len(s)
  /\ \A x \in AllVars(s) :
       /\ get_root_key_without_compacting(t, x) = get_root_key_without_compacting(s, x)
       /\ get_rank(t, x) = get_rank(s, x)
       /\ x \notin left
            => NameAdded(get_content_without_compacting(s, x),
                         get_content_without_compacting(t, x))

\* C36: var_to_error_type changes the content of a variable only by giving it
\* a name where it had none: every variable keeps the variant of its content
\* (a RecursionVar its structure, a FlexAbleVar its ability), its root and its
\* rank.
C36_OnlyNamesAdded ==
  (last.op = "var_to_error_type") => NamesOnlyAdded(saved[1], subs, { })

\* the same of the variables that are no unnamed FlexAbleVar and no unnamed
\* RecursionVar
OnlyNamesAddedElsewhere ==
  (last.op = "var_to_error_type")
    => NamesOnlyAdded(saved[1], subs, UnnamedOf(saved[1], { "FlexAbleVar", "RecursionVar" }))

\* ======================================================== Mark::OCCURS is transient
\* var_to_err_type is running: get_var_names has returned and no panic ended
\* the call
Projecting ==
  /\ last.op = "var_to_error_type"
  /\ last.walk.phase = "var_to_err_type"
  /\ ~last.walk.state.panicked

\* the variables of s that carry Mark::OCCURS
OccursMarked(s) == { x \in AllVars(s) : get_mark(s, x) = Mark_OCCURS }

\* the variables of s on the path of the activations that have not returned
AncestorPath(s, stack) ==
  { x \in AllVars(s) : \E k \in 1..Len(stack) : SameClass(s, x, stack[k].var) }

\* the store as the pass of get_var_names left it
NamedStore == get_var_names(saved[1], last.var, ImMap_default).subs

\* the variables that carry Mark::OCCURS are those of the path, and a call that
\* has returned leaves every variable the mark it had after get_var_names
OccursOnPathOnly ==
  /\ OccursMarked(subs) = AncestorPath(subs, last.walk.stack)
  /\ last.walk.stack = << >>
       => \A x \in AllVars(subs) : get_mark(subs, x) = get_mark(NamedStore, x)

\* C37 (as stated): Mark::OCCURS is transient. While var_to_error_type(v) runs
\* a variable carries Mark::OCCURS only while it is on the ancestor path; when
\* the call returns no variable carries it and every variable has the mark it
\* had when var_to_err_type first reached it, and that mark is
\* Mark::GET_VAR_NAMES for every variable the projection visits.
C37_MarksTransient ==
  Projecting
    => /\ OccursOnPathOnly
       /\ \A k \in 1..Len(last.walk.stack) : last.walk.stack[k].mark = Mark_GET_VAR_NAMES

\* C37 (amended): the same, the mark a visited variable had when it was first
\* reached being the mark the pass of get_var_names left it, which is
\* Mark::GET_VAR_NAMES for v and need not be for a variable get_var_names does
\* not go on to.
C37_MarksRestored ==
  Projecting
    => /\ OccursOnPathOnly
       /\ \A k \in 1..Len(last.walk.stack) :
            last.walk.stack[k].mark = get_mark(NamedStore, last.walk.stack[k].var)
       /\ get_mark(NamedStore, last.var) = Mark_GET_VAR_NAMES

\* a projection of a recursion variable has returned: its structure was
\* projected and has the mark it had, which get_var_names did not set
C37_Witness ==
  /\ Projecting
  /\ last.walk.stack = << >>
  /\ get_content_without_compacting(saved[1], last.var).tag = "RecursionVar"
  /\ get_mark(subs, last.var) = Mark_GET_VAR_NAMES
  /\ get_mark(subs, get_content_without_compacting(saved[1], last.var).structure) = Mark_NONE
  /\ OccursMarked(subs) = { }

\* a projection is under way below a variable that carries Mark::OCCURS
MarkedOnPath ==
  /\ Projecting
  /\ Len(last.walk.stack) >= 2
  /\ OccursMarked(subs) # { }

\* ============================================================ StorageSubs::merge_into
StorageSubsOffsets(utable, variables, tag_names, field_names, record_fields,
                   variable_slices, problems) ==
  [utable |-> utable, variables |-> variables, tag_names |-> tag_names,
   field_names |-> field_names, record_fields |-> record_fields,
   variable_slices |-> variable_slices, problems |-> problems]

offset_variable(offsets, variable) ==
  IF variable < FIRST_USER_SPACE_VAR THEN variable ELSE variable + offsets.utable

offset_variable_slice(offsets, slice) == [slice EXCEPT !.start = @ + offsets.variables]

offset_alias_variables(offsets, alias_variables) ==
  [alias_variables EXCEPT !.variables_start = @ + offsets.variables]

offset_union_tags(offsets, union_tags) ==
  [union_tags EXCEPT !.tag_names_start = @ + offsets.tag_names,
                     !.variables_start = @ + offsets.variable_slices]

offset_record_fields(offsets, record_fields) ==
  [record_fields EXCEPT !.field_names_start = @ + offsets.field_names,
                        !.variables_start = @ + offsets.variables,
                        !.field_types_start = @ + offsets.record_fields]

offset_tag_name_index(offsets, tag_name) == tag_name + offsets.tag_names

offset_problem(offsets, problem_index) == problem_index + offsets.problems

offset_flat_type(offsets, flat_type) ==
  CASE flat_type.tag = "Apply" ->
         Apply(flat_type.symbol, offset_variable_slice(offsets, flat_type.args))
    [] flat_type.tag = "Func" ->
         Func(offset_variable_slice(offsets, flat_type.args),
              offset_variable(offsets, flat_type.closure),
              offset_variable(offsets, flat_type.ret))
    [] flat_type.tag = "Record" ->
         Record(offset_record_fields(offsets, flat_type.fields),
                offset_variable(offsets, flat_type.ext))
    [] flat_type.tag = "TagUnion" ->
         TagUnion(offset_union_tags(offsets, flat_type.tags),
                  offset_variable(offsets, flat_type.ext))
    [] flat_type.tag = "FunctionOrTagUnion" ->
         FunctionOrTagUnion(offset_tag_name_index(offsets, flat_type.tag_name),
                            flat_type.symbol, offset_variable(offsets, flat_type.ext))
    [] flat_type.tag = "RecursiveTagUnion" ->
         RecursiveTagUnion(offset_variable(offsets, flat_type.rec),
                           offset_union_tags(offsets, flat_type.tags),
                           offset_variable(offsets, flat_type.ext))
    [] flat_type.tag = "Erroneous" -> Erroneous(offset_problem(offsets, flat_type.problem))
    [] flat_type.tag = "EmptyRecord" -> EmptyRecord
    [] flat_type.tag = "EmptyTagUnion" -> EmptyTagUnion

\* the names of variables are copied as they are
offset_content(offsets, content) ==
  CASE content.tag = "FlexVar" -> FlexVar(content.name)
    [] content.tag = "RigidVar" -> RigidVar(content.name)
    [] content.tag = "FlexAbleVar" -> FlexAbleVar(content.name, content.ability)
    [] content.tag = "RigidAbleVar" -> RigidAbleVar(content.name, content.ability)
    [] content.tag = "RecursionVar" ->
         RecursionVar(offset_variable(offsets, content.structure), content.name)
    [] content.tag = "Structure" -> Structure(offset_flat_type(offsets, content.flat))
    [] content.tag = "Alias" ->
         Alias(content.symbol, offset_alias_variables(offsets, content.args),
               offset_variable(offsets, content.real), content.kind)
    [] content.tag = "RangedNumber" ->
         RangedNumber(offset_variable(offsets, content.typ),
                      offset_variable_slice(offsets, content.range))
    [] content.tag = "Error" -> Error

\* the loop over the user-space variables of the storage, from i on: each new
\* variable is set to what get_ref gives for the old one
RECURSIVE merge_into_loop(_, _, _, _)
merge_into_loop(self, dest, offsets, i) ==
  IF i >= Len(self.utable) THEN dest
  ELSE Only({ merge_into_loop(
                self,
                set(dest, offset_variable(offsets, i),
                    Descriptor(offset_content(offsets, descriptor.content),
                               descriptor.rank, descriptor.mark, OptVariable_NONE)),
                offsets, i + 1) :
              descriptor \in { get_ref(self, i) } })

\* the target (dest) after the merge, and the offsets the returned function adds
merge_into(self, dest) ==
  LET offsets == StorageSubsOffsets(Len(dest.utable) - NUM_RESERVED_VARS,
                                    Len(dest.variables), Len(dest.tag_names),
                                    Len(dest.field_names), Len(dest.record_fields),
                                    Len(dest.variable_slices), Len(dest.problems))
  IN Only({ [target |->
               [t EXCEPT
                  !.variables =
                     @ \o [k \in 1..Len(self.variables) |->
                             offset_variable(offsets, self.variables[k])],
                  !.variable_slices =
                     @ \o [k \in 1..Len(self.variable_slices) |->
                             offset_variable_slice(offsets, self.variable_slices[k])],
                  !.tag_names = @ \o self.tag_names,
                  !.field_names = @ \o self.field_names,
                  !.record_fields = @ \o self.record_fields,
                  !.problems = @ \o self.problems],
             offsets |-> offsets] :
            t \in { merge_into_loop(
                      self, extend_by(dest, Len(self.utable) - NUM_RESERVED_VARS),
                      offsets, NUM_RESERVED_VARS) } })

\* unions made in a storage and merges made into a target
MaxMerges == 2

InitMerge ==
  /\ subs \in CopySources
  /\ target \in { Subs_new } \cup CopySources
  /\ snapshots = << >>
  /\ saved = << >>
  /\ last = [op |-> "new", calls |-> 0]

\* as_inner_mut, and a union in the storage
StorageUnion ==
  /\ last.calls < MaxMerges
  /\ \E l \in UserVars(subs), r \in UserVars(subs) :
       /\ l < r
       /\ ~SameClass(subs, l, r)
       /\ subs' = union(subs, l, r, get_ref(subs, l))
       /\ last' = [op |-> "union", calls |-> last.calls + 1]
       /\ UNCHANGED << target, snapshots, saved >>

\* a clone of the storage is merged; saved keeps the storage and the target
\* as they were before the call
MergeInto ==
  /\ last.calls < MaxMerges
  /\ \E r \in { merge_into(subs, target) } :
       /\ target' = r.target
       /\ saved' = << subs, target >>
       /\ last' = [op |-> "merge_into", calls |-> last.calls + 1, offsets |-> r.offsets]
       /\ UNCHANGED << subs, snapshots >>

NextMerge ==
  \/ StorageUnion
  \/ MergeInto

SpecMerge == InitMerge /\ [][NextMerge]_vars

\* ------------------------------------------------------ properties of merge_into
\* the function merge_into returned
Translation(v) == offset_variable(last.offsets, v)

\* the children of f(x) are the translations of the children of x
ChildrenTranslated(s, t, x) ==
  Children(t, Translation(x)) =
    [k \in 1..Len(Children(s, x)) |-> Translation(Children(s, x)[k])]

\* f is the identity on the reserved variables and injective on the others
TranslationApart(s) ==
  /\ \A x \in AllVars(s) \ UserVars(s) : Translation(x) = x
  /\ \A x, y \in UserVars(s) : Translation(x) = Translation(y) => x = y

\* C38: merge_into preserves names and graph shape. For every user-space
\* variable x of the storage, f(x) has in the target a content of the same
\* variant, whose children are the translations of the children of x and whose
\* variable name, tag names and field names are the strings they are in the
\* storage; f is the identity on the reserved variables and injective on the
\* user-space variables.
C38_NamesAndShapeKept ==
  (last.op = "merge_into")
    => /\ \A x \in UserVars(saved[1]) :
            /\ Shape(target, Translation(x), FALSE) = Shape(saved[1], x, FALSE)
            /\ ChildrenTranslated(saved[1], target, x)
       /\ TranslationApart(saved[1])

\* the same but for the names of the variables
ShapeKept ==
  (last.op = "merge_into")
    => /\ \A x \in UserVars(saved[1]) :
            /\ [Shape(target, Translation(x), FALSE) EXCEPT !.name = << >>]
                 = [Shape(saved[1], x, FALSE) EXCEPT !.name = << >>]
            /\ ChildrenTranslated(saved[1], target, x)
            /\ get_rank(target, Translation(x)) = get_rank(saved[1], x)
            /\ get_mark(target, Translation(x)) = get_mark(saved[1], x)
       /\ TranslationApart(saved[1])

\* the names of the variables are kept where the target had no name of its own
NamesKeptInEmpty ==
  (last.op = "merge_into" /\ saved[2].field_names = << >>)
    => \A x \in UserVars(saved[1]) :
         Shape(target, Translation(x), FALSE) = Shape(saved[1], x, FALSE)

\* a storage with variables in one class was merged into a target with names
MergedWithNames ==
  /\ last.op = "merge_into"
  /\ saved[2].field_names # << >>
  /\ \E x, y \in UserVars(saved[1]) : x # y /\ SameClass(saved[1], x, y)

\* seq is what the sequence longer begins with
IsPrefixOf(seq, longer) ==
  /\ Len(seq) <= Len(longer)
  /\ SubSeq(longer, 1, Len(seq)) = seq

\* every variable and every arena entry of s is in t what it is in s
StoreKept(s, t) ==
  /\ IsPrefixOf(s.utable, t.utable)
  /\ \A v \in AllVars(s) :
       /\ get_root_key_without_compacting(t, v) = get_root_key_without_compacting(s, v)
       /\ get_ref(t, v) = get_ref(s, v)
  /\ IsPrefixOf(s.variables, t.variables)
  /\ IsPrefixOf(s.variable_slices, t.variable_slices)
  /\ IsPrefixOf(s.tag_names, t.tag_names)
  /\ IsPrefixOf(s.field_names, t.field_names)
  /\ IsPrefixOf(s.record_fields, t.record_fields)
  /\ IsPrefixOf(s.problems, t.problems)

\* C39: merge_into preserves equivalence classes and leaves the target's own
\* data alone. Two variables a and b of the storage are equivalent in the
\* storage if and only if f(a) and f(b) are equivalent in the target after the
\* merge, and every variable and every arena entry the target had before the
\* merge has the same root, descriptor and value afterwards.
C39_ClassesAndTargetKept ==
  (last.op = "merge_into")
    => /\ \A a, b \in AllVars(saved[1]) :
            SameClass(saved[1], a, b) <=> SameClass(target, Translation(a), Translation(b))
       /\ StoreKept(saved[2], target)

\* the target's own data is left alone, every new variable is a root, and the
\* new variables of one class of the storage have one content
TargetKept ==
  (last.op = "merge_into")
    => /\ StoreKept(saved[2], target)
       /\ \A a \in UserVars(saved[1]) :
            get_root_key_without_compacting(target, Translation(a)) = Translation(a)
       /\ \A a, b \in UserVars(saved[1]) :
            SameClass(saved[1], a, b)
              => get_ref(target, Translation(a)) = get_ref(target, Translation(b))

\* classes are kept where no two variables of the storage are in one class and
\* the reserved variables of the target are apart as they are in the storage
ClassesKeptOfRoots ==
  (/\ last.op = "merge_into"
   /\ \A a, b \in AllVars(saved[1]) : SameClass(saved[1], a, b) => a = b
   /\ \A a, b \in AllVars(saved[1]) \ UserVars(saved[1]) :
        SameClass(saved[2], a, b) => a = b)
    => \A a, b \in AllVars(saved[1]) :
         SameClass(saved[1], a, b) <=> SameClass(target, Translation(a), Translation(b))

\* ===================================================== the first variable slice
UnionTags_from_tag_name_index(index) ==
  UnionTags_from_slices(SubsSlice_new(index, 1), SubsSlice_new(0, 1))

UnionTags_tag_without_arguments(s, tag_name) ==
  [subs |-> [s EXCEPT !.tag_names = Append(@, tag_name)],
   tags |-> [length |-> 1, tag_names_start |-> Len(s.tag_names), variables_start |-> 0]]

\* operations made on one pair of stores
MaxSliceCalls == 3

\* the variables that are given a tag union
SliceVars == { UserVar(1), UserVar(2) }

InitSlices ==
  /\ subs = OccursBuild.subs
  /\ target = Subs_new
  /\ snapshots = << >>
  /\ saved = << >>
  /\ last = [op |-> "new", calls |-> 0]

SliceCalled(op) == [op |-> op, calls |-> last.calls + 1]

TagWithoutArguments ==
  /\ last.calls < MaxSliceCalls
  /\ \E var \in SliceVars :
       \E r \in { UnionTags_tag_without_arguments(subs, TagName_Tag(<< "A" >>)) } :
         /\ subs' = set_content(r.subs, var,
                                Structure(TagUnion(r.tags, Var("EMPTY_TAG_UNION"))))
         /\ last' = SliceCalled("tag_without_arguments")
         /\ UNCHANGED << target, snapshots, saved >>

FromTagNameIndex ==
  /\ last.calls < MaxSliceCalls
  /\ \E var \in SliceVars :
       /\ subs' = set_content(subs, var,
                              Structure(TagUnion(UnionTags_from_tag_name_index(0),
                                                 Var("EMPTY_TAG_UNION"))))
       /\ last' = SliceCalled("from_tag_name_index")
       /\ UNCHANGED << target, snapshots, saved >>

\* an insertion of a tag with a payload
InsertTags ==
  /\ last.calls < MaxSliceCalls
  /\ \E var \in SliceVars :
       \E r \in { UnionTags_insert_into_subs(
                    subs, << << TagName_Tag(<< "B" >>), << UserVar(0), var >> >> >>) } :
         /\ subs' = set_content(r.subs, var, Structure(TagUnion(r.tags, Var("EMPTY_TAG_UNION"))))
         /\ last' = SliceCalled("insert_into_subs")
         /\ UNCHANGED << target, snapshots, saved >>

ReserveSlices ==
  /\ last.calls < MaxSliceCalls
  /\ \E length \in { 1, 2 } :
       /\ subs' = reserve_into_subs(reserve_variable_slices(subs, length).subs, length).subs
       /\ last' = SliceCalled("reserve")
       /\ UNCHANGED << target, snapshots, saved >>

SubstituteInSlices ==
  /\ last.calls < MaxSliceCalls
  /\ \E in_var \in SliceVars :
       \E r \in { explicit_substitute(subs, UserVar(0), UserVar(2), in_var) } :
         /\ subs' = r.subs
         /\ last' = SliceCalled("explicit_substitute")
         /\ UNCHANGED << target, snapshots, saved >>

\* the union of a variable is made recursive
MarkSlicesRecursive ==
  /\ last.calls < MaxSliceCalls
  /\ \E recursive \in SliceVars :
       \E c \in { get_content_without_compacting(subs, recursive) } :
         /\ c.tag = "Structure"
         /\ c.flat.tag = "TagUnion"
         /\ subs' = mark_tag_union_recursive(subs, recursive, c.flat.tags, c.flat.ext)
         /\ last' = SliceCalled("mark_tag_union_recursive")
         /\ UNCHANGED << target, snapshots, saved >>

DeepCopySlices ==
  /\ last.calls < MaxSliceCalls
  /\ \E var \in SliceVars :
       \E r \in { deep_copy_var_to(subs, target, var) } :
         /\ subs' = r.source
         /\ target' = r.target
         /\ last' = SliceCalled("deep_copy_var_to")
         /\ UNCHANGED << snapshots, saved >>

ImportSlices ==
  /\ last.calls < MaxSliceCalls
  /\ \E var \in SliceVars :
       \E r \in { copy_import_to(subs, target, var, Rank_import) } :
         /\ subs' = r.source
         /\ target' = r.target
         /\ last' = SliceCalled("copy_import_to")
         /\ UNCHANGED << snapshots, saved >>

MergeSlices ==
  /\ last.calls < MaxSliceCalls
  /\ target' = merge_into(subs, target).target
  /\ last' = SliceCalled("merge_into")
  /\ UNCHANGED << subs, snapshots, saved >>

NextSlices ==
  \/ TagWithoutArguments
  \/ FromTagNameIndex
  \/ InsertTags
  \/ ReserveSlices
  \/ SubstituteInSlices
  \/ MarkSlicesRecursive
  \/ DeepCopySlices
  \/ ImportSlices
  \/ MergeSlices

SpecSlices == InitSlices /\ [][NextSlices]_vars

\* the unions of s that are built on the first variable slice
OnFirstSlice(s) ==
  { v \in AllVars(s) :
      LET c == get_content_without_compacting(s, v)
      IN /\ c.tag = "Structure"
         /\ c.flat.tag \in { "TagUnion", "RecursiveTagUnion" }
         /\ c.flat.tags.variables_start = 0
         /\ c.flat.tags.length = 1 }

\* the first variable slice of s is empty, and a union built on it is one tag
\* without a payload
FirstSliceEmpty(s) ==
  /\ Len(s.variable_slices) >= 1
  /\ At(s.variable_slices, 0).length = 0
  /\ \A v \in OnFirstSlice(s) :
       PayloadsOf(s, get_content_without_compacting(s, v).flat.tags) = << << >> >>

\* C40: entry 0 of variable_slices is the empty slice in every reachable state,
\* after construction and after any sequence of insertions, reservations,
\* explicit_substitute, mark_tag_union_recursive, deep copy, import and
\* merge_into, so that a UnionTags built by tag_without_arguments or
\* from_tag_name_index is one tag with no payload variable.
C40_FirstSliceEmpty == FirstSliceEmpty(subs) /\ FirstSliceEmpty(target)

\* a union built on the first variable slice was merged into the target, where
\* its translation is one tag without a payload on a slice of its own
C40_Witness ==
  /\ last.op = "merge_into"
  /\ \E v \in OnFirstSlice(subs) : v \in UserVars(subs)
  /\ \E w \in UserVars(target) :
       LET c == get_content_without_compacting(target, w)
       IN /\ c.tag = "Structure"
          /\ c.flat.tag = "TagUnion"
          /\ c.flat.tags.length = 1
          /\ c.flat.tags.variables_start > 0
          /\ PayloadsOf(target, c.flat.tags) = << << >> >>

====
